---------------------------- MODULE Spec2Model ----------------------------
(***************************************************************************)
(* A model of the reception-grouping-forwarding pipeline of                *)
(* DICOM-RT-Station: the receive buffer with its flush threads             *)
(* (dicom_processor.py, handle_store), the plan grouper of the network     *)
(* path and of the import path, the send engines (DicomProcessor and the   *)
(* folder watcher of DICOMnode.py) and the forwarding rule engine          *)
(* (rules_manager.py).                                                     *)
(*                                                                         *)
(* Each part has its own specification over its own variables; the         *)
(* variables of the other parts are held at their initial value.           *)
(***************************************************************************)
EXTENDS Integers, Sequences, FiniteSets, TLC

VARIABLES
    \* ---- receive buffer (DicomProcessor.handle_store) ----
    now,             \* time.time(), in ticks of 0.1 s
    receive_buffer,  \* self._receive_buffer: bucket key -> list of staged paths
    receive_time,    \* self._receive_time: bucket key -> time of last arrival
    flush_threads,   \* the flush_buffer_after_timeout threads started so far
    arrivals,        \* history: the (key, time) of every handle_store call
    flushes,         \* history: every call of _group_and_move_received_files
    \* ---- forwarding rules (rules_manager.py, SettingsManager) ----
    rules_enabled,   \* rules.ini [General] rules_enabled
    rules,           \* rules.ini: the Rule sections, in section order
    nodes,           \* settings.ini: the DicomNode sections, in section order
    checks,          \* history: number of check_forwarding_rules calls on this snapshot
    first_check,     \* history: first check_forwarding_rules call on this snapshot
    last_check,      \* history: latest check_forwarding_rules call on this snapshot
    \* ---- one folder send (send_plan_to_node, the watcher's process_folder) ----
    plan_folder,     \* the files of the folder that is sent
    failed_folder,   \* the files relocated into failed/
    send,            \* the running send: engine, batch, loop index, counters
    cstore_log,      \* history: the per-file attempts of this send, in order
    assoc_count,     \* history: associations opened by this send
    released_at,     \* history: attempts made when the association was released
    removed,         \* history: the files this send deleted with os.remove
    \* ---- the plan grouper (network flush path and import path) ----
    staged,          \* the temp files of each bucket, in list order, not yet flushed
    import_folder,   \* the files of the import folder, in os.walk order
    watch_folder,    \* the receive root: path -> the object written there, and how
    quarantine,      \* the processor's failed/: the files move_to_failed put there
    grouped,         \* history: every file the grouper wrote, with the plan it was written for
    ingested,        \* history: the objects of the buckets flushed so far
    entered,         \* history: number of files that arrived or were dropped for import
    forwarded,       \* history: the sends rule-driven forwarding asked for
    \* ---- the Store SCP at the level of threads (DicomProcessor) ----
    server,          \* self.server: running, stopped, or the process has exited
    attrs,           \* self._receive_buffer_lock, _receive_buffer, _receive_time (0: no attribute)
    heap,            \* the Lock and dict objects created so far, by kind
    store_threads,   \* the threads that run handle_store: line, bucket key, bound locals
    flushers,        \* the flush_buffer_after_timeout threads, each with its closure
    temp_dir,        \* the temp files that exist
    appended,        \* history: the paths appended to a bucket, in order
    handed,          \* history: the file lists passed to _group_and_move_received_files
    replies,         \* history: the status returned for every C-STORE
    \* ---- DICOMnode.py: the receiver ----
    echo_log,        \* history: the status returned for every C-ECHO
    node_replies,    \* history: the status returned for every C-STORE
    executor_queue,  \* the saves submitted to the executor and not yet run
    incoming_dir,    \* the number of files saved below the incoming folder
    error_dir,       \* the number of files saved to the error folder
    \* ---- DICOMnode.py: the folder watcher ----
    spool,           \* the number of .dcm files in each folder of the outgoing spool
    folder_timers,   \* self.folder_timers: the folders with a started timer
    process_timers,  \* the started timers of schedule_folder_processing, by folder
    process_all_timer, \* the timer of the next process_all_folders round is started
    is_processing,   \* self.is_processing
    workers,         \* the threads that have set is_processing and not yet cleared it
    missed,          \* history: the folders holding a file that came without an event
    drops,           \* history: the number of files put into the spool
    \* ---- what is in the files ----
    temp_files,      \* the staged temp files, each with the bytes that were received
    import_dir,      \* the files of the import folder
    receive_root,    \* the files placed below the receive root, and by which path
    persisted,       \* history: every file written, with the bytes it was written from
    n_objects,       \* the number of objects received or put into the import folder
    \* ---- rule-driven forwarding ----
    forwarding,      \* the forwarding of the plan folder: the folder before, the results
    \* ---- the sanitisers ----
    sanitised,       \* the last call of each sanitiser: argument, result, result of the result
    \* ---- DICOMnode.py: the reaper of empty folders ----
    minute,          \* the time, in minutes
    spool_dirs,      \* the directories of the spool: existing, number of files, mtime
    reap,            \* cleanup_empty_folders: its now, and the directories still to visit
    reaped,          \* history: the directories the reaper removed
    \* ---- DICOMnode.py: start_receiver ----
    listener,        \* start_receiver: its line, the seconds slept, where the last exception was raised
    last_start,      \* history: the last call of ae.start_server, and the sleep before it
    failures,        \* history: the exceptions caught, counted up to MaxFailures
    \* ---- move_to_failed of both programs ----
    clock_second,    \* the time, in seconds
    source_files,    \* the files each mover can be called with
    failed_entries,  \* failed/ of each mover: name -> content and .error file
    send_errors_log, \* DICOMnode.py: the lines of the log file of failed/
    move_calls,      \* history: the calls of move_to_failed on existing files
    \* ---- the import folder's setting and other files ----
    clear_import_folder_after_import,\* settings.ini, [General] clear_import_folder_after_import
    import_others,   \* the files of the import folder that are no .dcm files
    \* ---- DICOMnode.py: the Timer objects of the folder watcher ----
    timers,          \* the Timer objects started for folders: folder and state
    timer_dict,      \* self.folder_timers: folder -> its recorded Timer
    to_process,      \* the folders scheduled for processing
    \* ---- DICOMnode.py: the folder watcher in seconds ----
    watch_clock,     \* the time, in seconds
    dir_files,       \* the number of .dcm files in each directory of the spool
    last_event,      \* the time of the last event for a .dcm file of each directory
    events,          \* history: the number of events
    inactivity_timers,\* self.folder_timers: folder -> the time its timer fires
    processing_timers,\* the started timers of process_specific_folder
    sent_from,       \* history: the directories files were sent from, and when
    \* ---- send_all_dicom_files: one call ----
    xfer,            \* the running call of send_all_dicom_files: its locals, and the files stored with Success
    xfer_folder,     \* the files of the call that lie in their folder
    xfer_failed      \* the files of the call that lie in failed/

bufVars == <<now, receive_buffer, receive_time, flush_threads, arrivals, flushes>>

ruleVars == <<rules_enabled, rules, nodes, checks, first_check, last_check>>

sendVars == <<plan_folder, failed_folder, send, cstore_log, assoc_count, released_at, removed>>

groupVars ==
    <<staged, import_folder, watch_folder, quarantine, grouped, ingested, entered, forwarded>>

scpVars ==
    <<server, attrs, heap, store_threads, flushers, temp_dir, appended, handed, replies>>

rcvVars == <<echo_log, node_replies, executor_queue, incoming_dir, error_dir>>

watchVars ==
    <<spool, folder_timers, process_timers, process_all_timer, is_processing, workers,
      missed, drops>>

nodeVars == <<rcvVars, watchVars>>

fileVars == <<temp_files, import_dir, receive_root, persisted, n_objects>>

fwdVars == <<forwarding>>

sanVars == <<sanitised>>

reapVars == <<minute, spool_dirs, reap, reaped>>

rcvLoopVars == <<listener, last_start, failures>>

failedVars == <<clock_second, source_files, failed_entries, send_errors_log, move_calls>>

importVars == <<clear_import_folder_after_import, import_others>>

timerVars == <<timers, timer_dict, to_process>>

activityVars == <<watch_clock, dir_files, last_event, events, inactivity_timers, processing_timers, sent_from>>

xferVars == <<xfer, xfer_folder, xfer_failed>>

vars == <<bufVars, ruleVars, sendVars, groupVars, scpVars, nodeVars, fileVars, fwdVars, sanVars, reapVars, rcvLoopVars, failedVars, importVars, timerVars, activityVars, xferVars>>

\* the variables each part leaves alone
notBufVars == <<ruleVars, sendVars, groupVars, scpVars, nodeVars, fileVars, fwdVars, sanVars, reapVars, rcvLoopVars, failedVars, importVars, timerVars, activityVars, xferVars>>

notRuleVars == <<bufVars, sendVars, groupVars, scpVars, nodeVars, fileVars, fwdVars, sanVars, reapVars, rcvLoopVars, failedVars, importVars, timerVars, activityVars, xferVars>>

notSendVars == <<bufVars, ruleVars, groupVars, scpVars, nodeVars, fileVars, fwdVars, sanVars, reapVars, rcvLoopVars, failedVars, importVars, timerVars, activityVars, xferVars>>

notGroupVars == <<bufVars, ruleVars, sendVars, scpVars, nodeVars, fileVars, fwdVars, sanVars, reapVars, rcvLoopVars, failedVars, importVars, timerVars, activityVars, xferVars>>

notScpVars == <<bufVars, ruleVars, sendVars, groupVars, nodeVars, fileVars, fwdVars, sanVars, reapVars, rcvLoopVars, failedVars, importVars, timerVars, activityVars, xferVars>>

notNodeVars == <<bufVars, ruleVars, sendVars, groupVars, scpVars, fileVars, fwdVars, sanVars, reapVars, rcvLoopVars, failedVars, importVars, timerVars, activityVars, xferVars>>

notFileVars == <<bufVars, ruleVars, sendVars, groupVars, scpVars, nodeVars, fwdVars, sanVars, reapVars, rcvLoopVars, failedVars, importVars, timerVars, activityVars, xferVars>>

notSanVars == <<bufVars, ruleVars, sendVars, groupVars, scpVars, nodeVars, fileVars, fwdVars, reapVars, rcvLoopVars, failedVars, importVars, timerVars, activityVars, xferVars>>

notReapVars == <<bufVars, ruleVars, sendVars, groupVars, scpVars, nodeVars, fileVars, fwdVars, sanVars, rcvLoopVars, failedVars, importVars, timerVars, activityVars, xferVars>>

notRcvLoopVars == <<bufVars, ruleVars, sendVars, groupVars, scpVars, nodeVars, fileVars, fwdVars, sanVars, reapVars, failedVars, importVars, timerVars, activityVars, xferVars>>

notFailedVars == <<bufVars, ruleVars, sendVars, groupVars, scpVars, nodeVars, fileVars, fwdVars, sanVars, reapVars, rcvLoopVars, importVars, timerVars, activityVars, xferVars>>

\* process_import_folder changes the files of Part 4 and of Part 14
notGroupImportVars == <<bufVars, ruleVars, sendVars, scpVars, nodeVars, fileVars, fwdVars, sanVars, reapVars, rcvLoopVars, failedVars, timerVars, activityVars, xferVars>>

notImportVars == <<bufVars, ruleVars, sendVars, groupVars, scpVars, nodeVars, fileVars, fwdVars, sanVars, reapVars, rcvLoopVars, failedVars, timerVars, activityVars, xferVars>>

notTimerVars == <<bufVars, ruleVars, sendVars, groupVars, scpVars, nodeVars, fileVars, fwdVars, sanVars, reapVars, rcvLoopVars, failedVars, importVars, activityVars, xferVars>>

notActivityVars == <<bufVars, ruleVars, sendVars, groupVars, scpVars, nodeVars, fileVars, fwdVars, sanVars, reapVars, rcvLoopVars, failedVars, importVars, timerVars, xferVars>>

notXferVars == <<bufVars, ruleVars, sendVars, groupVars, scpVars, nodeVars, fileVars, fwdVars, sanVars, reapVars, rcvLoopVars, failedVars, importVars, timerVars, activityVars>>

\* forwarding runs the sends of Part 3
notFwdVars == <<bufVars, ruleVars, groupVars, scpVars, nodeVars, fileVars, sanVars, reapVars, rcvLoopVars, failedVars, importVars, timerVars, activityVars, xferVars>>

(***************************************************************************)
(* Generic helpers                                                         *)
(***************************************************************************)
Range(s) == {s[i] : i \in 1..Len(s)}

(***************************************************************************)
(* Part 1: the receive buffer and its debounced flush                      *)
(***************************************************************************)

\* timeout=2.0 of flush_buffer_after_timeout, in ticks of 0.1 s
BUFFER_QUIESCE == 20
\* the 0.1 of "now - last_time < timeout - 0.1", in ticks of 0.1 s
FLUSH_EPSILON == 1

\* Bounds of the model
MaxArrivals == 3
\* arrivals happen up to this many ticks after start
ArrivalWindow == 21
\* the clock stops this many ticks after the arrival window
DrainWindow == 21
\* a flush thread wakes at most this many ticks after its sleep ended
MaxJitter == 1

\* The bucket keys (PatientID, StudyInstanceUID) of the objects that arrive
BufferKeys == {"P42|S9", "P43|S9"}

\* time.time() at process start: far from the epoch 0 that
\* receive_time.get(buffer_key, 0) falls back to
StartTime == BUFFER_QUIESCE

MaxTime == StartTime + ArrivalWindow + DrainWindow

InitBuf ==
    /\ now = StartTime
    /\ receive_buffer = << >>
    /\ receive_time = << >>
    /\ flush_threads = << >>
    /\ arrivals = << >>
    /\ flushes = << >>

\* time passes (the clock of the model starts with the first arrival); a
\* thread whose sleep ended is scheduled within MaxJitter ticks
Tick ==
    /\ now < MaxTime
    /\ arrivals # << >>
    /\ \A i \in 1..Len(flush_threads) :
          flush_threads[i].pc = "sleep" => now < flush_threads[i].wake + MaxJitter
    /\ now' = now + 1
    /\ UNCHANGED <<receive_buffer, receive_time, flush_threads, arrivals, flushes>>
    /\ UNCHANGED notBufVars

\* handle_store, lines 178-244: under the lock the object is written to the
\* temp dir, its path appended to the bucket and the bucket's time refreshed;
\* then a new flush thread is started, which first sleeps `timeout`.
handle_store(key) ==
    /\ Len(arrivals) < MaxArrivals
    /\ now <= StartTime + ArrivalWindow
    /\ LET path == Len(arrivals) + 1
           old == IF key \in DOMAIN receive_buffer THEN receive_buffer[key] ELSE << >>
       IN /\ receive_buffer' =
                [k \in DOMAIN receive_buffer \cup {key} |->
                    IF k = key THEN Append(old, path) ELSE receive_buffer[k]]
          /\ receive_time' =
                [k \in DOMAIN receive_time \cup {key} |->
                    IF k = key THEN now ELSE receive_time[k]]
          /\ flush_threads' = Append(flush_threads,
                [key |-> key, wake |-> now + BUFFER_QUIESCE, pc |-> "sleep"])
          /\ arrivals' = Append(arrivals, [key |-> key, at |-> now])
    /\ UNCHANGED <<now, flushes>>
    /\ UNCHANGED notBufVars

\* line 226: the flush thread returns without acting when the bucket saw an
\* arrival less than timeout - 0.1 ago
NoFlushYet_NoDebounce(t, last_time) == FALSE

NoFlushYet(t, last_time) == t - last_time < BUFFER_QUIESCE - FLUSH_EPSILON

\* flush_buffer_after_timeout, lines 221-235, after its sleep: under the lock
\* compare the clock with the bucket's last arrival, pop the bucket, and hand
\* a non-empty file list to _group_and_move_received_files.
flush_buffer_after_timeout(i) ==
    /\ i \in 1..Len(flush_threads)
    /\ flush_threads[i].pc = "sleep"
    /\ now >= flush_threads[i].wake
    /\ LET key == flush_threads[i].key
           last_time == IF key \in DOMAIN receive_time THEN receive_time[key] ELSE 0
           file_list == IF key \in DOMAIN receive_buffer THEN receive_buffer[key] ELSE << >>
       IN IF NoFlushYet(now, last_time)
          THEN UNCHANGED <<receive_buffer, receive_time, flushes>>
          ELSE /\ receive_buffer' = [k \in DOMAIN receive_buffer \ {key} |-> receive_buffer[k]]
               /\ receive_time' = [k \in DOMAIN receive_time \ {key} |-> receive_time[k]]
               /\ flushes' = IF file_list = << >>
                             THEN flushes
                             ELSE Append(flushes, [key |-> key, files |-> file_list, at |-> now])
    /\ flush_threads' = [flush_threads EXCEPT ![i].pc = "done"]
    /\ UNCHANGED <<now, arrivals>>
    /\ UNCHANGED notBufVars

NextBuf ==
    \/ Tick
    \/ \E key \in BufferKeys : handle_store(key)
    \/ \E i \in 1..MaxArrivals + 1 : flush_buffer_after_timeout(i)

(***************************************************************************)
(* Part 2: the forwarding rule engine (rules_manager.py) and the node      *)
(* table it resolves targets in (SettingsManager, main.py)                 *)
(*                                                                         *)
(* A label or a target list is a sequence of one-character strings, so     *)
(* that `in`, split(',') and strip() are computed; an AE title is only     *)
(* ever compared for equality and stays a string.                          *)
(***************************************************************************)

\* the number of Rule sections the model lets add_rule create
MaxRules == 2
\* the number of calls of check_forwarding_rules followed on one snapshot
MaxChecks == 3

\* a strip that takes one blank from each end
strip_Once(s) ==
    LET l == IF s # << >> /\ Head(s) = " " THEN Tail(s) ELSE s
    IN IF l # << >> /\ l[Len(l)] = " " THEN SubSeq(l, 1, Len(l) - 1) ELSE l

\* str.strip(): leading and trailing blanks removed
RECURSIVE lstrip(_)
lstrip(s) == IF s # << >> /\ Head(s) = " " THEN lstrip(Tail(s)) ELSE s

RECURSIVE rstrip(_)
rstrip(s) ==
    IF s # << >> /\ s[Len(s)] = " " THEN rstrip(SubSeq(s, 1, Len(s) - 1)) ELSE s

strip(s) == rstrip(lstrip(s))

\* str.split(sep): the pieces between the separators; "".split(",") is [""]
RECURSIVE split(_, _)
split(s, sep) ==
    IF \E i \in 1..Len(s) : s[i] = sep
    THEN LET i == CHOOSE k \in 1..Len(s) :
                      s[k] = sep /\ \A j \in 1..k - 1 : s[j] # sep
         IN <<SubSeq(s, 1, i - 1)>> \o split(SubSeq(s, i + 1, Len(s)), sep)
    ELSE <<s>>

\* Python's `sub in s` on strings
str_in(sub, s) ==
    \E i \in 0..Len(s) - Len(sub) : SubSeq(s, i + 1, i + Len(sub)) = sub

\* the values the model configures and queries with
TESTAE == "TESTAE"

IMPORT_FOLDER == "IMPORT_FOLDER"

SourceAEs == {TESTAE, IMPORT_FOLDER}

ADP == <<"A", "D", "P">>

PlanNames == {<<"A", "D", "P", "1">>, <<"H", "N">>}

\* target_nodes as typed in rules.ini: "", "K1,K2", " K1 ,,G"
TargetStrings ==
    { << >>,
      <<"K", "1", ",", "K", "2">>,
      <<" ", "K", "1", " ", ",", ",", "G">> }

RuleValues ==
    [enabled : BOOLEAN, source_ae : {"", TESTAE}, plan_label_match : {<< >>, ADP},
     target_nodes : TargetStrings]

\* the rule ensure_import_folder_rule creates, lines 87-93
ImportFolderRule ==
    [enabled |-> TRUE, source_ae |-> IMPORT_FOLDER, plan_label_match |-> << >>,
     target_nodes |-> << >>]

\* settings.ini: two nodes K1 and K2, and a third section that reuses the
\* name K1
InitNodes ==
    << [name |-> <<"K", "1">>, aet |-> "AET1", enabled |-> TRUE],
       [name |-> <<"K", "2">>, aet |-> "AET2", enabled |-> TRUE],
       [name |-> <<"K", "1">>, aet |-> "AET3", enabled |-> TRUE] >>

\* create_default_rules_file and ensure_import_folder_rule on a fresh
\* installation: rules globally off, the import-folder rule present
InitRules ==
    /\ rules_enabled = FALSE
    /\ rules = <<ImportFolderRule>>
    /\ nodes = InitNodes
    /\ checks = 0
    /\ first_check = << >>
    /\ last_check = << >>

\* SettingsManager.get_node_info, main.py 344-351: the first node section
\* with that name, or None (the empty sequence here)
get_node_info(node_name) ==
    LET hits == SelectSeq(nodes, LAMBDA n : n.name = node_name)
    IN IF hits = << >> THEN << >> ELSE <<Head(hits)>>

\* lines 210-234: the tests a rule passes before its targets are added
RuleApplies_IgnoreSource(rule, source_ae, plan_name) ==
    /\ rule.enabled
    /\ ~(rule.plan_label_match # << >> /\ ~str_in(rule.plan_label_match, plan_name))
    /\ split(rule.target_nodes, ",") # << << >> >>

RuleApplies(rule, source_ae, plan_name) ==
    /\ rule.enabled
    /\ ~(rule.source_ae # "" /\ rule.source_ae # source_ae)
    /\ ~(rule.plan_label_match # << >> /\ ~str_in(rule.plan_label_match, plan_name))
    /\ split(rule.target_nodes, ",") # << << >> >>

\* lines 238-251: each name is stripped, empty names are skipped, and a name
\* is added with its node when the node exists and is enabled
RECURSIVE ResolveTargets(_)
ResolveTargets(names) ==
    IF names = << >> THEN << >>
    ELSE LET node_name == strip(Head(names))
             node_info == get_node_info(node_name)
             rest == ResolveTargets(Tail(names))
         IN IF node_name # << >> /\ node_info # << >> /\ node_info[1].enabled
            THEN << <<node_name, node_info[1]>> >> \o rest
            ELSE rest

\* lines 206-251: the loop over get_all_rules()
RECURSIVE CollectTargets(_, _, _)
CollectTargets(all_rules, source_ae, plan_name) ==
    IF all_rules = << >> THEN << >>
    ELSE LET rule == Head(all_rules)
             rest == CollectTargets(Tail(all_rules), source_ae, plan_name)
         IN IF RuleApplies(rule, source_ae, plan_name)
            THEN ResolveTargets(split(rule.target_nodes, ",")) \o rest
            ELSE rest

\* a check that would keep its target_nodes list from call to call
check_forwarding_rules_Stateful(source_ae, plan_name) ==
    (IF last_check = << >> THEN << >> ELSE last_check[1].result)
        \o (IF ~rules_enabled THEN << >> ELSE CollectTargets(rules, source_ae, plan_name))

\* RulesManager.check_forwarding_rules, lines 185-258
check_forwarding_rules(source_ae, plan_name) ==
    IF ~rules_enabled THEN << >> ELSE CollectTargets(rules, source_ae, plan_name)

\* a caller evaluates the rules for a plan (dicom_processor.py 548 and 1335,
\* main.py 1454); the call reads the configuration and writes none of it
call_check_forwarding_rules(source_ae, plan_name) ==
    /\ checks < MaxChecks
    /\ checks' = checks + 1
    /\ LET call == [source_ae |-> source_ae, plan_name |-> plan_name,
                    result |-> check_forwarding_rules(source_ae, plan_name)]
       IN /\ last_check' = <<call>>
          /\ first_check' = IF first_check = << >> THEN <<call>> ELSE first_check
    /\ UNCHANGED <<rules_enabled, rules, nodes>>
    /\ UNCHANGED notRuleVars

\* RulesManager.set_rules_enabled, lines 107-110
set_rules_enabled(enabled) ==
    /\ rules_enabled # enabled
    /\ rules_enabled' = enabled
    /\ checks' = 0
    /\ first_check' = << >>
    /\ last_check' = << >>
    /\ UNCHANGED <<rules, nodes>>
    /\ UNCHANGED notRuleVars

\* RulesManager.add_rule, lines 141-161: a new section after the others
add_rule(rule) ==
    /\ Len(rules) < MaxRules
    /\ rules' = Append(rules, rule)
    /\ checks' = 0
    /\ first_check' = << >>
    /\ last_check' = << >>
    /\ UNCHANGED <<rules_enabled, nodes>>
    /\ UNCHANGED notRuleVars

\* RulesManager.delete_rule, lines 177-183
delete_rule(i) ==
    /\ i \in 1..Len(rules)
    /\ rules' = SubSeq(rules, 1, i - 1) \o SubSeq(rules, i + 1, Len(rules))
    /\ checks' = 0
    /\ first_check' = << >>
    /\ last_check' = << >>
    /\ UNCHANGED <<rules_enabled, nodes>>
    /\ UNCHANGED notRuleVars

\* SettingsManager.update_node, main.py 353-365, changing the Enabled flag
update_node(index, enabled) ==
    /\ index \in 1..Len(nodes)
    /\ nodes[index].enabled # enabled
    /\ nodes' = [nodes EXCEPT ![index].enabled = enabled]
    /\ checks' = 0
    /\ first_check' = << >>
    /\ last_check' = << >>
    /\ UNCHANGED <<rules_enabled, rules>>
    /\ UNCHANGED notRuleVars

NextRules ==
    \/ \E source_ae \in SourceAEs, plan_name \in PlanNames :
           call_check_forwarding_rules(source_ae, plan_name)
    \/ \E enabled \in BOOLEAN : set_rules_enabled(enabled)
    \/ \E rule \in RuleValues : add_rule(rule)
    \/ \E i \in 1..MaxRules : delete_rule(i)
    \/ \E index \in 1..2, enabled \in BOOLEAN : update_node(index, enabled)

(***************************************************************************)
(* Part 3: one folder send.  Two engines: DicomProcessor.send_plan_to_node *)
(* with _sort_files_by_modality and _send_files_to_node                    *)
(* (dicom_processor.py 1551-1845), used by forwarding and operator sends,  *)
(* and the folder watcher's process_folder with send_all_dicom_files       *)
(* (DICOMnode.py 644-860).  The loop over the batch is followed file by    *)
(* file; the peer decides the outcome of every C-STORE.  One send of one   *)
(* folder is followed from the listing of the folder to the return.        *)
(***************************************************************************)

\* the number of files the model puts into the folder
MaxBatch == 3

\* the files that can lie in the folder: what a header read returns
\* (dcmread), and whether the name contains "dose"
FileInfo ==
    [name \in {"CT.1.dcm", "CT.2.dcm", "RTSTRUCT_H.dcm", "RTPLAN_H.dcm",
               "RTDOSE_H.dcm", "MR.1.dcm", "bad.dcm", "dose_raw.dcm"} |->
        CASE name = "CT.1.dcm"       -> [readable |-> TRUE, modality |-> "CT", dose_named |-> FALSE]
          [] name = "CT.2.dcm"       -> [readable |-> TRUE, modality |-> "CT", dose_named |-> FALSE]
          [] name = "RTSTRUCT_H.dcm" -> [readable |-> TRUE, modality |-> "RTSTRUCT", dose_named |-> FALSE]
          [] name = "RTPLAN_H.dcm"   -> [readable |-> TRUE, modality |-> "RTPLAN", dose_named |-> FALSE]
          [] name = "RTDOSE_H.dcm"   -> [readable |-> TRUE, modality |-> "RTDOSE", dose_named |-> TRUE]
          [] name = "MR.1.dcm"       -> [readable |-> TRUE, modality |-> "MR", dose_named |-> FALSE]
          [] name = "bad.dcm"        -> [readable |-> FALSE, modality |-> "UNKNOWN", dose_named |-> FALSE]
          [] name = "dose_raw.dcm"   -> [readable |-> FALSE, modality |-> "UNKNOWN", dose_named |-> TRUE]]

FileNames == DOMAIN FileInfo

\* what the peer answers to one C-STORE: Success, a failure status, or the
\* call raises
StoreOutcomes == {"0x0000", "0xA700", "raised"}

\* what ae.associate gives: an established association, one that is not
\* established, or the call raises
AssocOutcomes == {"established", "rejected", "raised"}

\* os.walk: the files of the folder in any order
Listings(files) ==
    {l \in [1..Cardinality(files) -> files] :
        \A i, j \in 1..Cardinality(files) : i # j => l[i] # l[j]}

Idle == [pc |-> "idle"]

InitSend ==
    /\ plan_folder = {}
    /\ failed_folder = {}
    /\ send = Idle
    /\ cstore_log = << >>
    /\ assoc_count = 0
    /\ released_at = -1
    /\ removed = {}

\* a file is written into the folder (by the grouper, or by whoever feeds
\* the watched folder) while no send runs
place_file(name) ==
    /\ send.pc = "idle"
    /\ name \notin plan_folder
    /\ Cardinality(plan_folder) < MaxBatch
    /\ plan_folder' = plan_folder \cup {name}
    /\ UNCHANGED <<failed_folder, send, cstore_log, assoc_count, released_at, removed>>
    /\ UNCHANGED notSendVars

\* self.modality_order, dicom_processor.py 30-35, as _sort_files_by_modality
\* uses it: .get(modality, 99), and 100 for a file that cannot be read
ModalityOrder(name) ==
    IF ~FileInfo[name].readable THEN 100
    ELSE CASE FileInfo[name].modality = "CT" -> 1
           [] FileInfo[name].modality = "RTSTRUCT" -> 2
           [] FileInfo[name].modality = "RTPLAN" -> 3
           [] FileInfo[name].modality = "RTDOSE" -> 4
           [] OTHER -> 99

\* list.sort(key=...) is stable: an item goes behind the items whose key is
\* not larger
RECURSIVE InsertByOrder(_, _)
InsertByOrder(sorted, name) ==
    IF sorted = << >> THEN <<name>>
    ELSE IF ModalityOrder(Head(sorted)) <= ModalityOrder(name)
         THEN <<Head(sorted)>> \o InsertByOrder(Tail(sorted), name)
         ELSE <<name>> \o sorted

RECURSIVE SortByOrder(_, _)
SortByOrder(file_list, sorted) ==
    IF file_list = << >> THEN sorted
    ELSE SortByOrder(Tail(file_list), InsertByOrder(sorted, Head(file_list)))

_sort_files_by_modality_Unsorted(file_list) == file_list

\* DicomProcessor._sort_files_by_modality, lines 1632-1667
_sort_files_by_modality(file_list) == SortByOrder(file_list, << >>)

\* DICOMFolderWatcher.process_folder, lines 670-744: the readable files
\* grouped CT, RTSTRUCT, RTPLAN, RTDOSE, then the other modalities
OrderedFiles(all_files) ==
    LET ok == SelectSeq(all_files, LAMBDA f : FileInfo[f].readable)
        of(m) == SelectSeq(ok, LAMBDA f : FileInfo[f].modality = m)
    IN of("CT") \o of("RTSTRUCT") \o of("RTPLAN") \o of("RTDOSE")
          \o SelectSeq(ok, LAMBDA f :
                 FileInfo[f].modality \notin {"CT", "RTSTRUCT", "RTPLAN", "RTDOSE"})

\* process_folder, lines 691-727: a file that cannot be read is moved to
\* failed/ (a dose-named one too: Dataset is not imported, line 714 raises,
\* and the handler of line 722 moves the file)
UnreadableFiles(all_files) == {f \in Range(all_files) : ~FileInfo[f].readable}

Running(engine, delete_after, listing, batch, established) ==
    [pc |-> "sending", engine |-> engine, delete_after |-> delete_after,
     listing |-> listing, batch |-> batch, i |-> 1, established |-> established,
     success_count |-> 0, failed_files |-> << >>]

\* send_plan_to_node, lines 1562-1580, and _send_files_to_node up to the
\* loop, lines 1680-1713: list the .dcm files, sort them, open the
\* association; without an association the send returns False at once
send_plan_to_node(delete_after, assoc) ==
    /\ send.pc = "idle"
    /\ plan_folder # {}
    /\ \E dicom_files \in Listings(plan_folder) :
          LET sorted_files == _sort_files_by_modality(dicom_files)
          IN send' = IF assoc = "established"
                     THEN Running("processor", delete_after, dicom_files, sorted_files, TRUE)
                     ELSE [Running("processor", delete_after, dicom_files, sorted_files, FALSE)
                              EXCEPT !.pc = "done"]
    /\ assoc_count' = 1
    /\ cstore_log' = << >>
    /\ released_at' = -1
    /\ removed' = {}
    /\ UNCHANGED <<plan_folder, failed_folder>>
    /\ UNCHANGED notSendVars

\* the for loop moves on to the next file whatever the file's outcome: the
\* try/except lies inside the loop (lines 1716-1831; DICOMnode.py 771-834)
NextFile_AbortOnFailure(i, n, outcome) == IF outcome = "0x0000" THEN i + 1 ELSE n + 1

NextFile(i, n, outcome) == i + 1

\* _send_files_to_node, lines 1716-1831, one iteration: read the file, send
\* it, count a Success; a file that cannot be read raises before its C-STORE
_send_files_to_node(outcome) ==
    /\ send.pc = "sending"
    /\ send.engine = "processor"
    /\ send.i <= Len(send.batch)
    /\ LET file_path == send.batch[send.i]
       IN /\ ~FileInfo[file_path].readable => outcome = "raised"
          /\ cstore_log' = Append(cstore_log,
                 [file |-> file_path, assoc |-> assoc_count, outcome |-> outcome])
          /\ send' = [send EXCEPT
                 !.i = NextFile(send.i, Len(send.batch), outcome),
                 !.success_count = IF outcome = "0x0000" THEN @ + 1 ELSE @]
    /\ UNCHANGED <<plan_folder, failed_folder, assoc_count, released_at, removed>>
    /\ UNCHANGED notSendVars

\* _send_files_to_node, lines 1833-1841, and send_plan_to_node, lines
\* 1582-1586: release, success iff every file was stored, and
\* delete_plan_files when delete_after and success
send_plan_to_node_return ==
    /\ send.pc = "sending"
    /\ send.engine = "processor"
    /\ send.i > Len(send.batch)
    /\ released_at' = Len(cstore_log)
    /\ LET success == send.success_count = Len(send.batch)
       IN IF send.delete_after /\ success
          THEN /\ plan_folder' = {}
               /\ removed' = plan_folder
          ELSE UNCHANGED <<plan_folder, removed>>
    /\ send' = [send EXCEPT !.pc = "done"]
    /\ UNCHANGED <<failed_folder, cstore_log, assoc_count>>
    /\ UNCHANGED notSendVars

\* DICOMFolderWatcher.move_to_failed, lines 961-978, for a list of files
move_to_failed(files) ==
    /\ failed_folder' = failed_folder \cup (files \cap plan_folder)
    /\ plan_folder' = plan_folder \ files

\* process_folder, lines 644-749, and send_all_dicom_files up to the loop,
\* lines 752-769: list the .dcm files, move the unreadable ones to failed/,
\* order the others, open the association; without an association every
\* file of the batch is moved to failed/ (lines 844-858)
process_folder(assoc) ==
    /\ send.pc = "idle"
    /\ plan_folder # {}
    /\ \E all_files \in Listings(plan_folder) :
          LET ordered_files == OrderedFiles(all_files)
          IN IF ordered_files = << >>
             THEN /\ move_to_failed(UnreadableFiles(all_files))
                  /\ UNCHANGED <<send, assoc_count>>
             ELSE /\ assoc_count' = 1
                  /\ IF assoc = "established"
                     THEN /\ send' = Running("watcher", TRUE, all_files, ordered_files, TRUE)
                          /\ move_to_failed(UnreadableFiles(all_files))
                     ELSE /\ send' = [Running("watcher", TRUE, all_files, ordered_files, FALSE)
                                         EXCEPT !.pc = "done"]
                          /\ move_to_failed(Range(all_files))
    /\ cstore_log' = << >>
    /\ released_at' = -1
    /\ removed' = {}
    /\ UNCHANGED notSendVars

\* send_all_dicom_files, lines 771-834, one iteration: send the dataset; on
\* Success the file is deleted at once (line 826), otherwise it is noted in
\* failed_files
send_all_dicom_files(outcome) ==
    /\ send.pc = "sending"
    /\ send.engine = "watcher"
    /\ send.i <= Len(send.batch)
    /\ LET file_path == send.batch[send.i]
       IN /\ cstore_log' = Append(cstore_log,
                 [file |-> file_path, assoc |-> assoc_count, outcome |-> outcome])
          /\ send' = [send EXCEPT
                 !.i = NextFile(send.i, Len(send.batch), outcome),
                 !.success_count = IF outcome = "0x0000" THEN @ + 1 ELSE @,
                 !.failed_files = IF outcome = "0x0000" THEN @ ELSE Append(@, file_path)]
          /\ IF outcome = "0x0000"
             THEN /\ plan_folder' = plan_folder \ {file_path}
                  /\ removed' = removed \cup {file_path}
             ELSE UNCHANGED <<plan_folder, removed>>
    /\ UNCHANGED <<failed_folder, assoc_count, released_at>>
    /\ UNCHANGED notSendVars

\* send_all_dicom_files, lines 836-860: release, then move the files noted
\* in failed_files to failed/
send_all_dicom_files_return ==
    /\ send.pc = "sending"
    /\ send.engine = "watcher"
    /\ send.i > Len(send.batch)
    /\ released_at' = Len(cstore_log)
    /\ move_to_failed(Range(send.failed_files))
    /\ send' = [send EXCEPT !.pc = "done"]
    /\ UNCHANGED <<cstore_log, assoc_count, removed>>
    /\ UNCHANGED notSendVars

NextSend ==
    \/ \E name \in FileNames : place_file(name)
    \/ \E delete_after \in BOOLEAN, assoc \in AssocOutcomes :
          send_plan_to_node(delete_after, assoc)
    \/ \E outcome \in StoreOutcomes : _send_files_to_node(outcome)
    \/ send_plan_to_node_return
    \/ \E assoc \in AssocOutcomes : process_folder(assoc)
    \/ \E outcome \in StoreOutcomes : send_all_dicom_files(outcome)
    \/ send_all_dicom_files_return

(***************************************************************************)
(* Part 4: the plan grouper.  The network path stages every received       *)
(* object in the bucket of its (PatientID, StudyInstanceUID) and, at the   *)
(* flush of a bucket, runs _group_and_move_received_files on the bucket's  *)
(* file list (dicom_processor.py 251-567); the import path runs            *)
(* process_import_folder on the files of the import folder (706-1369).     *)
(* Both write below the same receive root (self.watch_folder).  When a     *)
(* bucket is flushed is the subject of Part 1; here a bucket may be        *)
(* flushed whenever it is not empty.                                       *)
(*                                                                         *)
(* Every attribute that ends up in a path is a sequence of one-character   *)
(* strings, so that sanitize_path_component, split('.') and the f-strings  *)
(* of the folder and file names are computed.                              *)
(***************************************************************************)

\* the number of files that arrive by C-STORE or are dropped for import
MaxFiles == 3
\* the number of temp files of one flush whose dcmread raises
MaxReadErrors == 1

\* the default of the getattr calls, and Python's None
unknown == <<"u", "n", "k", "n", "o", "w", "n">>

None == << >>

RTPLAN == <<"R", "T", "P", "L", "A", "N">>

RTDOSE == <<"R", "T", "D", "O", "S", "E">>

RTSTRUCT == <<"R", "T", "S", "T", "R", "U", "C", "T">>

CT == <<"C", "T">>

Unzugeordnet == <<"U", "n", "z", "u", "g", "e", "o", "r", "d", "n", "e", "t">>

DotDcm == <<".", "d", "c", "m">>

\* the characters the class \w of re.sub matches
WordChars ==
    {"0", "1", "2", "3", "4", "5", "6", "7", "8", "9", "_",
     "A", "B", "C", "D", "E", "F", "G", "H", "I", "J", "K", "L", "M",
     "N", "O", "P", "Q", "R", "S", "T", "U", "V", "W", "X", "Y", "Z",
     "a", "b", "c", "d", "e", "f", "g", "h", "i", "j", "k", "l", "m",
     "n", "o", "p", "q", "r", "s", "t", "u", "v", "w", "x", "y", "z"}

\* str.replace(old, new) for one-character strings
replace(s, old, new) == [i \in 1..Len(s) |-> IF s[i] = old THEN new ELSE s[i]]

\* re.sub(r'[^\w\-_. ]', '_', name)
re_sub(name) ==
    [i \in 1..Len(name) |->
        IF name[i] \in WordChars \cup {"-", "_", ".", " "} THEN name[i] ELSE "_"]

\* DicomProcessor.sanitize_path_component, lines 571-580
sanitize_path_component(name) ==
    strip(re_sub(replace(replace(name, ":", "-"), "/", "-")))

\* Three patients.  PatX and PatY are different patients (different
\* PatientID) whose PatientID and PatientName sanitise to the same folder
\* name; PatZ shares nothing with them.
PatX == [PatientID |-> <<"P", "/", "1">>, PatientName |-> <<"D", "o", "e">>]

PatY == [PatientID |-> <<"P", "-", "1">>, PatientName |-> <<"D", "o", "e">>]

PatZ == [PatientID |-> <<"Q", "2">>, PatientName |-> <<"R", "o", "e">>]

\* what dcmread returns for a file, as the getattr calls of the grouper see
\* it (a missing ReferencedRTPlanSequence is None)
Dataset(modality, patient, sop, study, frame, label, ref) ==
    [readable |-> TRUE, Modality |-> modality,
     PatientID |-> patient.PatientID, PatientName |-> patient.PatientName,
     SOPInstanceUID |-> sop, StudyInstanceUID |-> study,
     FrameOfReferenceUID |-> frame, RTPlanLabel |-> label,
     ReferencedSOPInstanceUID |-> ref,
     SeriesDescription |-> None, StudyDescription |-> None]

\* the objects of the model.  PlanX and PlanY carry the same UIDs and the
\* same label under two PatientIDs; DoseX and DoseX2 both reference PlanX;
\* DoseZ, CTZ and SSZ belong to PatZ and carry the plan's SOP instance UID
\* resp. frame of reference; CTX2 is a CT of PatX in another frame of
\* reference; Garbage.dcm is a file dcmread cannot read.
Datasets ==
    [name \in {"PlanX", "PlanX2", "PlanY", "DoseX", "DoseX2", "DoseZ", "CTX", "CTX2", "CTZ",
               "SSX", "SSZ", "Garbage"} |->
        LET Study7 == <<"1", ".", "2", ".", "7">>
            Study8 == <<"1", ".", "3", ".", "8">>
            F1 == <<"9", ".", "1">>
            F2 == <<"9", ".", "2">>
            L == <<"L">>
            uid(n) == <<"1", ".", n>>
        IN CASE name = "PlanX"  -> Dataset(RTPLAN, PatX, uid("1"), Study7, F1, L, None)
             [] name = "PlanX2" -> Dataset(RTPLAN, PatX, uid("0"), Study7, F1, L, None)
             [] name = "PlanY"  -> Dataset(RTPLAN, PatY, uid("1"), Study7, F1, L, None)
             [] name = "DoseX"  -> Dataset(RTDOSE, PatX, uid("2"), Study7, F1, unknown, uid("1"))
             [] name = "DoseX2" -> Dataset(RTDOSE, PatX, uid("3"), Study7, F1, unknown, uid("1"))
             [] name = "DoseZ"  -> Dataset(RTDOSE, PatZ, uid("4"), Study8, F1, unknown, uid("1"))
             [] name = "CTX"    -> Dataset(CT, PatX, uid("5"), Study7, F1, unknown, None)
             [] name = "CTX2"   -> Dataset(CT, PatX, uid("6"), Study7, F2, unknown, None)
             [] name = "CTZ"    -> Dataset(CT, PatZ, uid("7"), Study8, F1, unknown, None)
             [] name = "SSX"    -> Dataset(RTSTRUCT, PatX, uid("8"), Study7, F1, unknown, None)
             [] name = "SSZ"    -> Dataset(RTSTRUCT, PatZ, uid("9"), Study8, F1, unknown, None)
             [] name = "Garbage" ->
                    [Dataset(unknown, PatZ, unknown, unknown, unknown, unknown, None)
                        EXCEPT !.readable = FALSE]]

\* the objects that Part 4 and the parts after it deliver; PlanX2, a second
\* plan of PatX with the label and the study of PlanX and a SOP instance UID
\* of its own, is delivered in Part 17
ObjectNames == DOMAIN Datasets \ {"PlanX2"}

\* an object the Store SCP can stage: its dataset was decoded
StorableNames == {name \in ObjectNames : Datasets[name].readable}

\* the calling AE title of the association that delivers the objects
CallingAEs == {TESTAE}

\* handle_store, lines 157-161: buffer_key
buffer_key(ds) == <<ds.PatientID, ds.StudyInstanceUID>>

BucketKeys == {buffer_key(Datasets[name]) : name \in StorableNames}

\* lines 318-324 (and 893-904, 1044-1062): the folder of a patient, and the
\* last segment of the StudyInstanceUID
patient_folder(ds) ==
    sanitize_path_component(ds.PatientName) \o <<" ", "(">>
        \o sanitize_path_component(ds.PatientID) \o <<")">>

safe_study_id(ds) ==
    LET segments == split(ds.StudyInstanceUID, ".")
    IN sanitize_path_component(segments[Len(segments)])

\* the path of a file of a plan's folder: patient folder, plan folder
\* <label>_<study>, file name <prefix><rest>.dcm
PlanPath(plan, prefix, rest) ==
    <<patient_folder(plan),
      sanitize_path_component(plan.RTPlanLabel) \o <<"_">> \o safe_study_id(plan),
      prefix \o rest \o DotDcm>>

RTPLAN_path(plan) ==
    PlanPath(plan, RTPLAN \o <<"_">>, sanitize_path_component(plan.RTPlanLabel))

RTDOSE_path(plan) ==
    PlanPath(plan, RTDOSE \o <<"_">>, sanitize_path_component(plan.RTPlanLabel))

RTSTRUCT_path(plan) ==
    PlanPath(plan, RTSTRUCT \o <<"_">>, sanitize_path_component(plan.RTPlanLabel))

CT_path(plan, ct) ==
    PlanPath(plan, CT \o <<".">>, sanitize_path_component(ct.SOPInstanceUID))

\* lines 1043-1075: the path of a file that is imported without a plan
OrphanPath(ds) ==
    LET fallback_plan_name ==
            IF ds.SeriesDescription # None THEN ds.SeriesDescription
            ELSE IF ds.StudyDescription # None THEN ds.StudyDescription
            ELSE Unzugeordnet
        filename ==
            IF ds.Modality = CT
            THEN CT \o <<".">> \o sanitize_path_component(ds.SOPInstanceUID) \o DotDcm
            ELSE ds.Modality \o <<"_">> \o sanitize_path_component(fallback_plan_name)
                    \o DotDcm
    IN <<patient_folder(ds), Unzugeordnet \o <<"_">> \o safe_study_id(ds), filename>>

\* a write that keeps an existing file and writes beside it, under the name
\* with "_1" appended
WriteFile_Beside(disk, path, content) ==
    LET dest == IF path \in DOMAIN disk
                THEN <<path[1], path[2], path[3] \o <<"_", "1">>>>
                ELSE path
    IN [p \in DOMAIN disk \cup {dest} |-> IF p = dest THEN content ELSE disk[p]]

\* a file system as a function from paths: write (replacing), and remove
WriteFile(disk, path, content) ==
    [p \in DOMAIN disk \cup {path} |-> IF p = path THEN content ELSE disk[p]]

RemoveFile(disk, path) == [p \in DOMAIN disk \ {path} |-> disk[p]]

InitGroup ==
    /\ staged = << >>
    /\ import_folder = << >>
    /\ watch_folder = << >>
    /\ quarantine = {}
    /\ grouped = {}
    /\ ingested = {}
    /\ entered = 0
    /\ forwarded = << >>

\* lines 271-278 and 788-798: the four lists the files are sorted into
plan_files(objs, parsed) ==
    SelectSeq(parsed, LAMBDA i : Datasets[objs[i]].Modality = RTPLAN)

ct_files(objs, parsed) ==
    SelectSeq(parsed, LAMBDA i : Datasets[objs[i]].Modality = CT)

structure_files(objs, parsed) ==
    SelectSeq(parsed, LAMBDA i : Datasets[objs[i]].Modality = RTSTRUCT)

other_files(objs, parsed) ==
    SelectSeq(parsed, LAMBDA i : Datasets[objs[i]].Modality \notin {RTPLAN, CT, RTSTRUCT})

\* line 297: the dose test of the network path
DoseMatchesFlush(dose, plan) ==
    dose.ReferencedSOPInstanceUID = plan.SOPInstanceUID

\* lines 856 and 947: the dose test of the import path
DoseMatchesImport(dose, plan) ==
    /\ dose.ReferencedSOPInstanceUID = plan.SOPInstanceUID
    /\ dose.PatientID = plan.PatientID

\* lines 304 and 309 (872 and 878): the frame of reference test
FrameMatches(related, plan) ==
    related.FrameOfReferenceUID = plan.FrameOfReferenceUID

\* a patient test that lets every file pass
RelatedPatientOk_Unchecked(related, plan) == TRUE

\* lines 976-978: the import path skips a CT or RTSTRUCT of another patient
RelatedPatientOk(related, plan) == related.PatientID = plan.PatientID

\* lines 283-298 and 826-862: plan_ref_map[plan_sop_uid], a dict keyed by the
\* SOP instance UID: the entry of a UID is the one written for the last plan
\* of plan_files that carries it
plan_ref_map(objs, plans, others, plan_sop_uid, via) ==
    LET carriers == SelectSeq(plans,
                        LAMBDA p : Datasets[objs[p]].SOPInstanceUID = plan_sop_uid)
        last_plan == Datasets[objs[carriers[Len(carriers)]]]
    IN SelectSeq(others,
           LAMBDA d : IF via = "flush"
                      THEN DoseMatchesFlush(Datasets[objs[d]], last_plan)
                      ELSE DoseMatchesImport(Datasets[objs[d]], last_plan))

\* lines 299-310 and 864-879: frame_ref_map[frame_ref_uid]: the CTs, then
\* the RTSTRUCTs, with the plan's frame of reference
frame_ref_map(objs, cts, structs, plan) ==
    SelectSeq(cts, LAMBDA i : FrameMatches(Datasets[objs[i]], plan))
        \o SelectSeq(structs, LAMBDA i : FrameMatches(Datasets[objs[i]], plan))

\* one entry of the history `grouped`
Placement(plan_name, obj_name, via) == [plan |-> plan_name, obj |-> obj_name, via |-> via]

\* lines 375-422: the doses of a plan, each written to RTDOSE_<label>.dcm.
\* The destination is removed first; the temp file is copied and removed.
\* When the temp file is gone already (an earlier plan of this flush took
\* it), the copy, the fallback copy and the move all raise, and the handler
\* of line 507 ends the work on this plan.
RECURSIVE flush_doses(_, _, _, _)
flush_doses(objs, doses, p, st) ==
    IF doses = << >> \/ st.raised THEN st
    ELSE LET d == Head(doses)
             plan == Datasets[objs[p]]
             cleared == RemoveFile(st.disk, RTDOSE_path(plan))
         IN IF d \in st.gone
            THEN [st EXCEPT !.disk = cleared, !.raised = TRUE]
            ELSE flush_doses(objs, Tail(doses), p,
                    [st EXCEPT
                        !.disk = WriteFile(cleared, RTDOSE_path(plan),
                                     [obj |-> objs[d], how |-> "copy2"]),
                        !.gone = @ \cup {d},
                        !.log = @ \cup {Placement(objs[p], objs[d], "flush")}])

\* lines 426-506: the CTs and RTSTRUCTs of the plan's frame of reference,
\* rewritten with dcmwrite to CT.<sop>.dcm and RTSTRUCT_<label>.dcm; their
\* temp files stay until the end of the flush
RECURSIVE flush_related(_, _, _, _)
flush_related(objs, related, p, st) ==
    IF related = << >> THEN st
    ELSE LET r == Head(related)
             plan == Datasets[objs[p]]
             ds == Datasets[objs[r]]
             dest == IF ds.Modality = CT THEN CT_path(plan, ds) ELSE RTSTRUCT_path(plan)
         IN flush_related(objs, Tail(related), p,
                [st EXCEPT
                    !.disk = WriteFile(@, dest, [obj |-> objs[r], how |-> "dcmwrite"]),
                    !.log = @ \cup {Placement(objs[p], objs[r], "flush")}])

\* lines 312-508: the loop over plan_files.  The plan is rewritten with
\* dcmwrite to RTPLAN_<label>.dcm and its temp file removed, then its doses,
\* then its CTs and RTSTRUCTs.
RECURSIVE flush_plans(_, _, _, _)
flush_plans(objs, parsed, todo, st) ==
    IF todo = << >> THEN st
    ELSE LET p == Head(todo)
             plan == Datasets[objs[p]]
             plans == plan_files(objs, parsed)
             doses == plan_ref_map(objs, plans, other_files(objs, parsed),
                                   plan.SOPInstanceUID, "flush")
             related == frame_ref_map(objs, ct_files(objs, parsed),
                                      structure_files(objs, parsed), plan)
             with_plan ==
                [st EXCEPT
                    !.disk = WriteFile(@, RTPLAN_path(plan),
                                 [obj |-> objs[p], how |-> "dcmwrite"]),
                    !.gone = @ \cup {p},
                    !.log = @ \cup {Placement(objs[p], objs[p], "flush")}]
             with_doses == flush_doses(objs, doses, p, with_plan)
         IN flush_plans(objs, parsed, Tail(todo),
                IF with_doses.raised
                THEN [with_doses EXCEPT !.raised = FALSE]
                ELSE flush_related(objs, related, p, with_doses))

\* lines 517-567 and 1289-1363: forwarding.  For every plan of plan_files
\* whose folder exists the rules are evaluated, and send_plan_to_node is
\* called once per returned target (delete_after is left at False, so the
\* send changes nothing on disk).
RECURSIVE forward_plans(_, _, _, _)
forward_plans(objs, todo, source_ae, disk) ==
    IF todo = << >> THEN << >>
    ELSE LET plan == Datasets[objs[Head(todo)]]
             folder == <<RTPLAN_path(plan)[1], RTPLAN_path(plan)[2]>>
             target_nodes ==
                IF \E path \in DOMAIN disk : <<path[1], path[2]>> = folder
                THEN check_forwarding_rules(source_ae[Head(todo)], plan.RTPlanLabel)
                ELSE << >>
         IN [k \in 1..Len(target_nodes) |->
                [folder |-> folder, plan_name |-> plan.RTPlanLabel,
                 source_ae |-> source_ae[Head(todo)], node |-> target_nodes[k][1]]]
            \o forward_plans(objs, Tail(todo), source_ae, disk)

\* handle_store, lines 157-218: the object is written to a new temp file
\* (the calling AE title in its file meta) and the path is appended to the
\* bucket of its key
handle_store_file(name, calling_ae) ==
    /\ entered < MaxFiles
    /\ LET key == buffer_key(Datasets[name])
           old == IF key \in DOMAIN staged THEN staged[key] ELSE << >>
       IN staged' = [k \in DOMAIN staged \cup {key} |->
                        IF k = key
                        THEN Append(old, [obj |-> name, ae |-> calling_ae])
                        ELSE staged[k]]
    /\ entered' = entered + 1
    /\ UNCHANGED <<import_folder, watch_folder, quarantine, grouped, ingested, forwarded>>
    /\ UNCHANGED notGroupVars

\* flush_buffer_after_timeout, lines 228-233, with the whole of
\* _group_and_move_received_files, lines 251-567, on the popped file list:
\* read the headers (a file whose read raises is skipped, line 281), place
\* the plans with their doses, CTs and RTSTRUCTs, remove every temp file of
\* the list that is still there (lines 509-515), then forward.
_group_and_move_received_files(key, unreadable) ==
    /\ key \in DOMAIN staged
    /\ LET file_list == staged[key]
           objs == [i \in 1..Len(file_list) |-> file_list[i].obj]
           parsed == SelectSeq([i \in 1..Len(file_list) |-> i],
                               LAMBDA i : i \notin unreadable)
           done == flush_plans(objs, parsed, plan_files(objs, parsed),
                       [disk |-> watch_folder, gone |-> {}, log |-> {}, raised |-> FALSE])
           source_ae == [i \in 1..Len(file_list) |-> file_list[i].ae]
       IN /\ unreadable \subseteq 1..Len(file_list)
          /\ Cardinality(unreadable) <= MaxReadErrors
          /\ watch_folder' = done.disk
          /\ grouped' = grouped \cup done.log
          /\ ingested' = ingested \cup Range(objs)
          /\ forwarded' = forwarded
                \o forward_plans(objs, plan_files(objs, parsed), source_ae, done.disk)
    /\ staged' = [k \in DOMAIN staged \ {key} |-> staged[k]]
    /\ UNCHANGED <<import_folder, quarantine, entered>>
    /\ UNCHANGED notGroupVars

\* the operator puts a file into the import folder
copy_into_import_folder(name) ==
    /\ entered < MaxFiles
    /\ import_folder' = Append(import_folder, name)
    /\ entered' = entered + 1
    /\ UNCHANGED <<staged, watch_folder, quarantine, grouped, ingested, forwarded>>
    /\ UNCHANGED notGroupVars

\* lines 925-960: the doses of plan_ref_map[plan_sop_uid], each verified once
\* more against this plan and copied to RTDOSE_<label>.dcm
RECURSIVE import_doses(_, _, _, _)
import_doses(objs, doses, p, st) ==
    IF doses = << >> THEN st
    ELSE LET d == Head(doses)
             plan == Datasets[objs[p]]
         IN import_doses(objs, Tail(doses), p,
                IF DoseMatchesImport(Datasets[objs[d]], plan)
                THEN [st EXCEPT
                        !.disk = WriteFile(@, RTDOSE_path(plan),
                                     [obj |-> objs[d], how |-> "copy2"]),
                        !.log = @ \cup {Placement(objs[p], objs[d], "import")}]
                ELSE st)

\* lines 964-1000: the CTs and RTSTRUCTs of the plan's frame of reference; a
\* file of another patient is skipped
RECURSIVE import_related(_, _, _, _)
import_related(objs, related, p, st) ==
    IF related = << >> THEN st
    ELSE LET r == Head(related)
             plan == Datasets[objs[p]]
             ds == Datasets[objs[r]]
             dest == IF ds.Modality = CT THEN CT_path(plan, ds) ELSE RTSTRUCT_path(plan)
         IN import_related(objs, Tail(related), p,
                IF RelatedPatientOk(ds, plan)
                THEN [st EXCEPT
                        !.disk = WriteFile(@, dest, [obj |-> objs[r], how |-> "copy2"]),
                        !.log = @ \cup {Placement(objs[p], objs[r], "import")}]
                ELSE st)

\* lines 886-1010, Phase 2: the loop over plan_files
RECURSIVE import_plans(_, _, _, _)
import_plans(objs, parsed, todo, st) ==
    IF todo = << >> THEN st
    ELSE LET p == Head(todo)
             plan == Datasets[objs[p]]
             plans == plan_files(objs, parsed)
             doses == plan_ref_map(objs, plans, other_files(objs, parsed),
                                   plan.SOPInstanceUID, "import")
             related == frame_ref_map(objs, ct_files(objs, parsed),
                                      structure_files(objs, parsed), plan)
             with_plan ==
                [st EXCEPT
                    !.disk = WriteFile(@, RTPLAN_path(plan),
                                 [obj |-> objs[p], how |-> "copy2"]),
                    !.log = @ \cup {Placement(objs[p], objs[p], "import")}]
         IN import_plans(objs, parsed, Tail(todo),
                import_related(objs, related, p,
                    import_doses(objs, doses, p, with_plan)))

\* lines 1031-1087, Phase 3: every file of orphaned_files is copied into the
\* Unzugeordnet_<study> folder of its own patient
RECURSIVE import_orphans(_, _, _)
import_orphans(objs, orphaned_files, st) ==
    IF orphaned_files = << >> THEN st
    ELSE LET f == Head(orphaned_files)
         IN import_orphans(objs, Tail(orphaned_files),
                [st EXCEPT
                    !.disk = WriteFile(@, OrphanPath(Datasets[objs[f]]),
                                 [obj |-> objs[f], how |-> "copy2"]),
                    !.log = @ \cup {Placement("", objs[f], "import")}])

\* process_import_folder, lines 706-1369.  A .dcm file that cannot be read
\* is moved to failed/ (line 804); without any DICOM file the call returns
\* (line 815).  Phase 2 places the plans.  Phase 3 starts from
\* set(other_files); its loops over ct_files and structure_files test
\* `ct_file not in processed` with processed an int (lines 1017 and 1022),
\* which raises TypeError outside every try as soon as one of the two lists
\* is not empty: the call then ends there, the import folder stays as it is.
\* Otherwise the orphans are copied in the iteration order of the set, the
\* import folder is cleared and the plans are forwarded with source_ae
\* IMPORT_FOLDER.  Clearing: the setting is read (line 1092), line 1100 then
\* assigns True, so line 1103 always takes the branch that removes every
\* file and sub-directory of the import folder (1103-1220); the branch that
\* removes processed_files only (1221-1256) is dead.  Every file of
\* other_files is in orphaned_files, so processed_files holds all parsed
\* files here.
process_import_folder ==
    /\ import_folder # << >>
    /\ LET objs == import_folder
           clear_import_folder ==
               LET from_settings == clear_import_folder_after_import  \* line 1092
               IN TRUE                                                \* line 1100
           all_files == [i \in 1..Len(objs) |-> i]
           parsed == SelectSeq(all_files, LAMBDA i : Datasets[objs[i]].readable)
           unreadable == {objs[i] : i \in {j \in 1..Len(objs) : ~Datasets[objs[j]].readable}}
           plans == plan_files(objs, parsed)
           phase2 == import_plans(objs, parsed, plans, [disk |-> watch_folder, log |-> {}])
           source_ae == [i \in 1..Len(objs) |-> IMPORT_FOLDER]
       IN /\ quarantine' = quarantine \cup unreadable
          /\ IF parsed = << >>
             THEN /\ import_folder' = << >>
                  /\ UNCHANGED <<watch_folder, grouped, forwarded, import_others>>
             ELSE IF ct_files(objs, parsed) # << >> \/ structure_files(objs, parsed) # << >>
             THEN /\ import_folder' = SelectSeq(objs, LAMBDA name : Datasets[name].readable)
                  /\ UNCHANGED import_others
                  /\ watch_folder' = phase2.disk
                  /\ grouped' = grouped \cup phase2.log
                  /\ UNCHANGED forwarded
             ELSE \E orphaned_files \in Listings(Range(other_files(objs, parsed))) :
                     LET phase3 == import_orphans(objs, orphaned_files, phase2)
                     IN /\ import_folder' = << >>
                        /\ import_others' =
                              IF clear_import_folder THEN {} ELSE import_others
                        /\ watch_folder' = phase3.disk
                        /\ grouped' = grouped \cup phase3.log
                        /\ forwarded' = forwarded
                              \o forward_plans(objs, plans, source_ae, phase3.disk)
    /\ UNCHANGED <<staged, ingested, entered, clear_import_folder_after_import>>
    /\ UNCHANGED notGroupImportVars

\* the most entries the history `forwarded` gets from the rules check of
\* the main window
MaxForwarded == 2

\* RulesManager.update_rule, rules_manager.py 163-175, as the rules dialog
\* uses it to give a rule its target nodes
update_rule(i, target_nodes) ==
    /\ i \in 1..Len(rules)
    /\ rules[i].target_nodes # target_nodes
    /\ rules' = [rules EXCEPT ![i].target_nodes = target_nodes]
    /\ checks' = 0
    /\ first_check' = << >>
    /\ last_check' = << >>
    /\ UNCHANGED <<rules_enabled, nodes>>
    /\ UNCHANGED notRuleVars

\* main.py 1442-1462: the plan folders below the receive root, every one
\* evaluated with source_ae IMPORT_FOLDER and the part of its name before
\* the first "_" as the plan name; one send per returned target
RECURSIVE check_plan_folders(_)
check_plan_folders(folders) ==
    IF folders = << >> THEN << >>
    ELSE LET folder == Head(folders)
             plan_name == split(folder[2], "_")[1]
             source_ae == IMPORT_FOLDER
             target_nodes == check_forwarding_rules(source_ae, plan_name)
         IN [k \in 1..Len(target_nodes) |->
                [folder |-> folder, plan_name |-> plan_name,
                 source_ae |-> source_ae, node |-> target_nodes[k][1]]]
            \o check_plan_folders(Tail(folders))

\* MainWindow.process_import_folder, main.py 1382-1425, on an empty import
\* folder: DicomProcessor.process_import_folder returns at line 815 without
\* touching a file, and the finally block (line 1417) starts
\* _check_forwarding_rules_thread, lines 1427-1482, which walks the receive
\* root in the order os.listdir returns
_check_forwarding_rules_thread ==
    /\ import_folder = << >>
    /\ \E folders \in Listings({<<p[1], p[2]>> : p \in DOMAIN watch_folder}) :
          /\ Len(forwarded) + Len(check_plan_folders(folders)) <= MaxForwarded
          /\ forwarded' = forwarded \o check_plan_folders(folders)
    /\ UNCHANGED <<staged, import_folder, watch_folder, quarantine, grouped, ingested, entered>>
    /\ UNCHANGED notGroupVars

\* the rules the operator adds while files are grouped: forward every plan,
\* or every plan that TESTAE delivered, to K1 and K2
ForwardingRules ==
    {rule \in RuleValues :
        /\ rule.enabled
        /\ rule.plan_label_match = << >>
        /\ rule.target_nodes = <<"K", "1", ",", "K", "2">>}

NextGroup ==
    \/ \E name \in StorableNames, calling_ae \in CallingAEs :
          handle_store_file(name, calling_ae)
    \/ \E key \in BucketKeys, unreadable \in SUBSET (1..MaxFiles) :
          _group_and_move_received_files(key, unreadable)
    \/ \E name \in ObjectNames : copy_into_import_folder(name)
    \/ process_import_folder
    \/ \E enabled \in BOOLEAN : set_rules_enabled(enabled)
    \/ \E rule \in ForwardingRules : add_rule(rule)

\* grouping and importing with the main window's rules check: the operator
\* turns the rules on and gives a rule the targets K1 and K2
NextMainWindow ==
    \/ \E name \in StorableNames, calling_ae \in CallingAEs :
          handle_store_file(name, calling_ae)
    \/ \E key \in BucketKeys, unreadable \in SUBSET (1..MaxFiles) :
          _group_and_move_received_files(key, unreadable)
    \/ \E name \in ObjectNames : copy_into_import_folder(name)
    \/ process_import_folder
    \/ \E enabled \in BOOLEAN : set_rules_enabled(enabled)
    \/ \E i \in 1..MaxRules : update_rule(i, <<"K", "1", ",", "K", "2">>)
    \/ _check_forwarding_rules_thread

(***************************************************************************)
(* Part 5: the Store SCP at the level of threads.  DicomProcessor's        *)
(* handle_store (dicom_processor.py 134-249) runs in the thread of the     *)
(* association that delivers the object, so the handlers of two            *)
(* associations interleave line by line; every call starts a flush thread  *)
(* (221-244).  The lock and the two maps are attributes created on first   *)
(* use (164-169); a thread works with the objects it bound to its locals   *)
(* (173-175), and its flush thread with the same objects (a closure).      *)
(*                                                                         *)
(* Time is abstracted: receive_time holds the rank of the append that set  *)
(* it.  A flush thread that wakes finds the last arrival of its key older  *)
(* than its own sleep when that arrival was appended before the thread     *)
(* started; for a later arrival both outcomes of the test of line 226 are  *)
(* possible.                                                               *)
(***************************************************************************)

\* the number of C-STORE requests the processor's SCP receives
MaxStores == 2
\* the number of associations that deliver objects at the same time
MaxAssociations == 2
\* what the attribute is created as: a free Lock, an empty dict
NewObject(attr) == IF attr = "lock" THEN 0 ELSE << >>

\* the attribute a step is about
AttrOf(pc) ==
    CASE pc \in {"hasattr_lock", "new_lock", "bind_lock"} -> "lock"
      [] pc \in {"hasattr_buffer", "new_buffer", "bind_buffer"} -> "buffer"
      [] pc \in {"hasattr_time", "new_time", "bind_time"} -> "time"

\* the step after the hasattr test when the attribute exists, and the step
\* after each other step
AfterStep(pc) ==
    CASE pc = "hasattr_lock" -> "hasattr_buffer"
      [] pc = "new_lock" -> "hasattr_buffer"
      [] pc = "hasattr_buffer" -> "hasattr_time"
      [] pc = "new_buffer" -> "hasattr_time"
      [] pc = "hasattr_time" -> "bind_lock"
      [] pc = "new_time" -> "bind_lock"
      [] pc = "bind_lock" -> "bind_buffer"
      [] pc = "bind_buffer" -> "bind_time"
      [] pc = "bind_time" -> "acquire"

CreateStep(pc) ==
    CASE pc = "hasattr_lock" -> "new_lock"
      [] pc = "hasattr_buffer" -> "new_buffer"
      [] pc = "hasattr_time" -> "new_time"

InitScp ==
    /\ server = "running"
    /\ attrs = [lock |-> 0, buffer |-> 0, time |-> 0]
    /\ heap = [lock |-> << >>, buffer |-> << >>, time |-> << >>]
    /\ store_threads = << >>
    /\ flushers = << >>
    /\ temp_dir = {}
    /\ appended = << >>
    /\ handed = << >>
    /\ replies = << >>

\* dict.get(key, default) and the dict with one entry set or removed
DictGet(d, key, default) == IF key \in DOMAIN d THEN d[key] ELSE default

DictSet(d, key, value) == [k \in DOMAIN d \cup {key} |-> IF k = key THEN value ELSE d[k]]

DictPop(d, key) == [k \in DOMAIN d \ {key} |-> d[k]]

\* the threads that are between the acquire and the release of a lock
HandlersInside == {t \in 1..Len(store_threads) : store_threads[t].pc \in {"write", "append"}}

FlushersInside == {f \in 1..Len(flushers) : flushers[f].pc = "pop"}

Alive(t) == store_threads[t].pc \notin {"done", "killed"}

\* a C-STORE request reaches handle_store, lines 134-161: a thread of an
\* association starts to run the handler for an object of bucket `key`
c_store(key) ==
    /\ server = "running"
    /\ Len(store_threads) < MaxStores
    /\ Cardinality({t \in 1..Len(store_threads) : Alive(t)}) < MaxAssociations
    /\ store_threads' = Append(store_threads,
          [pc |-> "hasattr_lock", key |-> key,
           bound |-> [lock |-> 0, buffer |-> 0, time |-> 0]])
    /\ UNCHANGED <<server, attrs, heap, flushers, temp_dir, appended, handed, replies>>
    /\ UNCHANGED notScpVars

\* lines 164, 166, 168: if not hasattr(self, ...)
hasattr_test(t) ==
    /\ t \in 1..Len(store_threads)
    /\ store_threads[t].pc \in {"hasattr_lock", "hasattr_buffer", "hasattr_time"}
    /\ LET pc == store_threads[t].pc
       IN store_threads' = [store_threads EXCEPT ![t].pc =
             IF attrs[AttrOf(pc)] # 0 THEN AfterStep(pc) ELSE CreateStep(pc)]
    /\ UNCHANGED <<server, attrs, heap, flushers, temp_dir, appended, handed, replies>>
    /\ UNCHANGED notScpVars

\* lines 165, 167, 169: the attribute is set to a new object
create_attr(t) ==
    /\ t \in 1..Len(store_threads)
    /\ store_threads[t].pc \in {"new_lock", "new_buffer", "new_time"}
    /\ LET pc == store_threads[t].pc
           attr == AttrOf(pc)
       IN /\ heap' = [heap EXCEPT ![attr] = Append(@, NewObject(attr))]
          /\ attrs' = [attrs EXCEPT ![attr] = Len(heap[attr]) + 1]
          /\ store_threads' = [store_threads EXCEPT ![t].pc = AfterStep(pc)]
    /\ UNCHANGED <<server, flushers, temp_dir, appended, handed, replies>>
    /\ UNCHANGED notScpVars

\* lines 173-175: the locals buffer_lock, receive_buffer, receive_time
bind_local(t) ==
    /\ t \in 1..Len(store_threads)
    /\ store_threads[t].pc \in {"bind_lock", "bind_buffer", "bind_time"}
    /\ LET pc == store_threads[t].pc
           attr == AttrOf(pc)
       IN store_threads' = [store_threads EXCEPT ![t].pc = AfterStep(pc),
                                                 ![t].bound[attr] = attrs[attr]]
    /\ UNCHANGED <<server, attrs, heap, flushers, temp_dir, appended, handed, replies>>
    /\ UNCHANGED notScpVars

\* line 179: with buffer_lock
acquire_buffer_lock(t) ==
    /\ t \in 1..Len(store_threads)
    /\ store_threads[t].pc = "acquire"
    /\ heap.lock[store_threads[t].bound.lock] = 0
    /\ heap' = [heap EXCEPT !.lock[store_threads[t].bound.lock] = t]
    /\ store_threads' = [store_threads EXCEPT ![t].pc = "write"]
    /\ UNCHANGED <<server, attrs, flushers, temp_dir, appended, handed, replies>>
    /\ UNCHANGED notScpVars

\* one entry of the history `replies`: the status the handler returned, what
\* made it raise, whether the object's file was written and its path
\* appended to a bucket, and whether the path was in the bucket at the return
Reply(scp, path, status, error, written, recorded, in_bucket) ==
    [scp |-> scp, path |-> path, status |-> status, error |-> error,
     written |-> written, recorded |-> recorded, in_bucket |-> in_bucket]

\* lines 180-213: the temp file is written.  When the write raises, the with
\* block releases the lock and the handler of line 247 returns 0xC001.
write_temp_file(t, raises) ==
    /\ t \in 1..Len(store_threads)
    /\ store_threads[t].pc = "write"
    /\ IF raises
       THEN /\ heap' = [heap EXCEPT !.lock[store_threads[t].bound.lock] = 0]
            /\ store_threads' = [store_threads EXCEPT ![t].pc = "done"]
            /\ replies' = Append(replies,
                  Reply("processor", t, "0xC001", "dcmwrite", FALSE, t \in Range(appended),
                        t \in Range(DictGet(heap.buffer[store_threads[t].bound.buffer],
                                            store_threads[t].key, << >>))))
            /\ UNCHANGED temp_dir
       ELSE /\ temp_dir' = temp_dir \cup {t}
            /\ store_threads' = [store_threads EXCEPT ![t].pc = "append"]
            /\ UNCHANGED <<heap, replies>>
    /\ UNCHANGED <<server, attrs, flushers, appended, handed>>
    /\ UNCHANGED notScpVars

\* lines 215-218 and the end of the with block: the path is appended to the
\* bucket, the time of the bucket is set, the lock is released
append_path(t) ==
    /\ t \in 1..Len(store_threads)
    /\ store_threads[t].pc = "append"
    /\ LET me == store_threads[t]
           bucket == DictGet(heap.buffer[me.bound.buffer], me.key, << >>)
       IN heap' = [heap EXCEPT
             !.buffer[me.bound.buffer] = DictSet(@, me.key, Append(bucket, t)),
             !.time[me.bound.time] = DictSet(@, me.key, Len(appended) + 1),
             !.lock[me.bound.lock] = 0]
    /\ appended' = Append(appended, t)
    /\ store_threads' = [store_threads EXCEPT ![t].pc = "start_thread"]
    /\ UNCHANGED <<server, attrs, flushers, temp_dir, handed, replies>>
    /\ UNCHANGED notScpVars

\* lines 221-246: the flush thread is created and started, and the handler
\* returns 0x0000.  Thread.start() raises RuntimeError when no thread can be
\* started; the handler of line 247 then returns 0xC001.
start_flush_thread(t, raises) ==
    /\ t \in 1..Len(store_threads)
    /\ store_threads[t].pc = "start_thread"
    /\ LET me == store_threads[t]
           recorded == t \in Range(appended)
           in_bucket == t \in Range(DictGet(heap.buffer[me.bound.buffer], me.key, << >>))
       IN IF raises
          THEN /\ replies' = Append(replies,
                     Reply("processor", t, "0xC001", "Thread.start", TRUE, recorded,
                           in_bucket))
               /\ UNCHANGED flushers
          ELSE /\ replies' = Append(replies,
                     Reply("processor", t, "0x0000", "", TRUE, recorded, in_bucket))
               /\ flushers' = Append(flushers,
                     [pc |-> "sleep", key |-> me.key, bound |-> me.bound,
                      started |-> Len(appended), file_list |-> << >>])
    /\ store_threads' = [store_threads EXCEPT ![t].pc = "done"]
    /\ UNCHANGED <<server, attrs, heap, temp_dir, appended, handed>>
    /\ UNCHANGED notScpVars

\* lines 222-223: the sleep ends and the thread takes the lock of its closure
flush_acquire(f) ==
    /\ f \in 1..Len(flushers)
    /\ flushers[f].pc = "sleep"
    /\ heap.lock[flushers[f].bound.lock] = 0
    /\ heap' = [heap EXCEPT !.lock[flushers[f].bound.lock] = MaxStores + f]
    /\ flushers' = [flushers EXCEPT ![f].pc = "pop"]
    /\ UNCHANGED <<server, attrs, store_threads, temp_dir, appended, handed, replies>>
    /\ UNCHANGED notScpVars

\* lines 224-229: under the lock, return when the bucket saw an arrival less
\* than timeout - 0.1 ago (`recent`: possible only for an arrival appended
\* after this thread started), else pop the bucket and its time
flush_pop(f, recent) ==
    /\ f \in 1..Len(flushers)
    /\ flushers[f].pc = "pop"
    /\ LET me == flushers[f]
           last_time == DictGet(heap.time[me.bound.time], me.key, 0)
       IN /\ recent => last_time > me.started
          /\ IF recent
             THEN /\ heap' = [heap EXCEPT !.lock[me.bound.lock] = 0]
                  /\ flushers' = [flushers EXCEPT ![f].pc = "done"]
             ELSE /\ heap' = [heap EXCEPT
                        !.buffer[me.bound.buffer] = DictPop(@, me.key),
                        !.time[me.bound.time] = DictPop(@, me.key),
                        !.lock[me.bound.lock] = 0]
                  /\ flushers' = [flushers EXCEPT
                        ![f].file_list = DictGet(heap.buffer[me.bound.buffer], me.key, << >>),
                        ![f].pc = IF DictGet(heap.buffer[me.bound.buffer], me.key, << >>) = << >>
                                  THEN "done" ELSE "group"]
    /\ UNCHANGED <<server, attrs, store_threads, temp_dir, appended, handed, replies>>
    /\ UNCHANGED notScpVars

\* lines 232-235: the popped list goes through
\* _group_and_move_received_files, which leaves none of its temp files
flush_group(f) ==
    /\ f \in 1..Len(flushers)
    /\ flushers[f].pc = "group"
    /\ handed' = Append(handed, flushers[f].file_list)
    /\ temp_dir' = temp_dir \ Range(flushers[f].file_list)
    /\ flushers' = [flushers EXCEPT ![f].pc = "done"]
    /\ UNCHANGED <<server, attrs, heap, store_threads, appended, replies>>
    /\ UNCHANGED notScpVars

\* DicomProcessor.stop_receiver, lines 127-132: the server is shut down
stop_receiver ==
    /\ server = "running"
    /\ server' = "stopped"
    /\ UNCHANGED <<attrs, heap, store_threads, flushers, temp_dir, appended, handed, replies>>
    /\ UNCHANGED notScpVars

\* main.py 1589-1627: the window closes and the process exits; the flush
\* threads are daemon threads (line 242) and end with it
closeEvent ==
    /\ server = "stopped"
    /\ server' = "exited"
    /\ store_threads' = [t \in 1..Len(store_threads) |->
          IF Alive(t) THEN [store_threads[t] EXCEPT !.pc = "killed"] ELSE store_threads[t]]
    /\ flushers' = [f \in 1..Len(flushers) |->
          IF flushers[f].pc # "done" THEN [flushers[f] EXCEPT !.pc = "killed"] ELSE flushers[f]]
    /\ UNCHANGED <<attrs, heap, temp_dir, appended, handed, replies>>
    /\ UNCHANGED notScpVars

NextScp ==
    \/ \E key \in BufferKeys : c_store(key)
    \/ \E t \in 1..MaxStores : hasattr_test(t)
    \/ \E t \in 1..MaxStores : create_attr(t)
    \/ \E t \in 1..MaxStores : bind_local(t)
    \/ \E t \in 1..MaxStores : acquire_buffer_lock(t)
    \/ \E t \in 1..MaxStores, raises \in BOOLEAN : write_temp_file(t, raises)
    \/ \E t \in 1..MaxStores : append_path(t)
    \/ \E t \in 1..MaxStores, raises \in BOOLEAN : start_flush_thread(t, raises)
    \/ \E f \in 1..MaxStores : flush_acquire(f)
    \/ \E f \in 1..MaxStores, recent \in BOOLEAN : flush_pop(f, recent)
    \/ \E f \in 1..MaxStores : flush_group(f)
    \/ stop_receiver
    \/ closeEvent

(***************************************************************************)
(* Part 6: DICOMnode.py.  Its receiver (start_receiver, 360-390) answers   *)
(* C-ECHO and C-STORE with the handlers it bound.  Its folder watcher      *)
(* (DICOMFolderWatcher, 392-1067) arms a timer per folder, and the threads *)
(* of the timers compete for the flag is_processing before one of them     *)
(* runs process_folder, the folder send of Part 3.  Time is abstracted: a  *)
(* started timer fires at any later moment unless it is cancelled.  The    *)
(* receiver and the watcher have a specification each.                     *)
(***************************************************************************)

\* the number of C-ECHO and C-STORE requests the receiver gets
MaxNodeRequests == 3
\* the number of files that are put into the folders of the outgoing spool
MaxDrops == 2
\* the number of threads that are inside process_specific_folder or
\* process_all_folders at the same time
MaxWorkers == 2

\* [Security] trusted_ae_titles of config.ini, lines 53-54, and a peer that
\* is not in the list
TRUSTED_AE_TITLES == {"VARIAN", "RTPLANNING"}

UNKNOWN_AE == "UNKNOWN_AE"

\* line 381: the handlers start_receiver binds
handlers == {"EVT_C_STORE"}

\* is_trusted_ae, lines 62-64
is_trusted_ae(requestor_ae_title) == requestor_ae_title \in TRUSTED_AE_TITLES

\* handle_echo, lines 66-77
handle_echo(requestor_ae_title) ==
    IF ~is_trusted_ae(requestor_ae_title) THEN "0xC001" ELSE "0x0000"

\* the status of a C-ECHO: the one of the bound handler, and Success from
\* pynetdicom's default handler when none is bound to EVT_C_ECHO
EchoStatus(bound, requestor_ae_title) ==
    IF "EVT_C_ECHO" \in bound THEN handle_echo(requestor_ae_title) ELSE "0x0000"

\* the patient folders of the outgoing spool (self.watch_folder)
Folders == {"spool/P42", "spool/P43"}

InitNode ==
    /\ echo_log = << >>
    /\ node_replies = << >>
    /\ executor_queue = 0
    /\ incoming_dir = 0
    /\ error_dir = 0
    /\ spool = [f \in Folders |-> 0]
    /\ folder_timers = {}
    /\ process_timers = {}
    /\ process_all_timer = TRUE
    /\ is_processing = FALSE
    /\ workers = {}
    /\ missed = {}
    /\ drops = 0

NodeRequests == Len(echo_log) + Len(node_replies)

\* a C-ECHO reaches the receiver
c_echo(requestor_ae_title) ==
    /\ NodeRequests < MaxNodeRequests
    /\ echo_log' = Append(echo_log,
          [ae |-> requestor_ae_title, status |-> EchoStatus(handlers, requestor_ae_title)])
    /\ UNCHANGED <<node_replies, executor_queue, incoming_dir, error_dir>>
    /\ UNCHANGED watchVars
    /\ UNCHANGED notNodeVars

\* handle_store, lines 169-265: the save is handed to the executor (line
\* 256); when the body raises, the dataset is saved to the error folder
\* (lines 258-263); line 265 returns 0x0000 in both cases
node_handle_store(raises) ==
    /\ NodeRequests < MaxNodeRequests
    /\ node_replies' = Append(node_replies,
          Reply("node", NodeRequests + 1, "0x0000", IF raises THEN "Exception" ELSE "",
                FALSE, FALSE, FALSE))
    /\ IF raises
       THEN /\ error_dir' = error_dir + 1
            /\ UNCHANGED executor_queue
       ELSE /\ executor_queue' = executor_queue + 1
            /\ UNCHANGED error_dir
    /\ UNCHANGED <<echo_log, incoming_dir>>
    /\ UNCHANGED watchVars
    /\ UNCHANGED notNodeVars

\* process_and_save_dicom, lines 267-309, in a thread of the executor: the
\* dataset is saved below the incoming folder, or to the error folder when
\* the save raises
process_and_save_dicom(raises) ==
    /\ executor_queue > 0
    /\ executor_queue' = executor_queue - 1
    /\ IF raises
       THEN /\ error_dir' = error_dir + 1
            /\ UNCHANGED incoming_dir
       ELSE /\ incoming_dir' = incoming_dir + 1
            /\ UNCHANGED error_dir
    /\ UNCHANGED <<echo_log, node_replies>>
    /\ UNCHANGED watchVars
    /\ UNCHANGED notNodeVars

\* a .dcm file is written into a folder of the spool and the observer
\* delivers the event: on_created and handle_dicom_file, lines 498-534; the
\* folder's timer is cancelled and started anew
handle_dicom_file(parent_folder) ==
    /\ drops < MaxDrops
    /\ drops' = drops + 1
    /\ spool' = [spool EXCEPT ![parent_folder] = @ + 1]
    /\ folder_timers' = folder_timers \cup {parent_folder}
    /\ UNCHANGED <<process_timers, process_all_timer, is_processing, workers, missed>>
    /\ UNCHANGED rcvVars
    /\ UNCHANGED notNodeVars

\* a .dcm file is written into a folder of the spool and no event is
\* delivered
missed_event(parent_folder) ==
    /\ drops < MaxDrops
    /\ drops' = drops + 1
    /\ spool' = [spool EXCEPT ![parent_folder] = @ + 1]
    /\ missed' = missed \cup {parent_folder}
    /\ UNCHANGED <<folder_timers, process_timers, process_all_timer, is_processing, workers>>
    /\ UNCHANGED rcvVars
    /\ UNCHANGED notNodeVars

\* a rescan that finds no folder
found_dicom_Never(patient_path) == FALSE

\* lines 475-480: the folder holds a .dcm file at some depth
found_dicom(patient_path) == spool[patient_path] > 0

\* periodic_rescan, lines 467-496: every patient folder that holds a .dcm
\* file and has no timer gets one; the rescan starts its own next run
periodic_rescan ==
    /\ folder_timers' = folder_timers \cup {f \in Folders : found_dicom(f)}
    /\ UNCHANGED <<spool, process_timers, process_all_timer, is_processing, workers, missed,
                   drops>>
    /\ UNCHANGED rcvVars
    /\ UNCHANGED notNodeVars

\* check_folder_for_processing, lines 536-555, with
\* schedule_folder_processing, lines 557-569: the folder's timer fires; its
\* entry is deleted, and a timer for process_specific_folder is started
\* unless is_processing is set
check_folder_for_processing(folder_path) ==
    /\ folder_path \in folder_timers
    /\ folder_timers' = folder_timers \ {folder_path}
    /\ process_timers' = IF ~is_processing
                         THEN process_timers \cup {folder_path}
                         ELSE process_timers
    /\ UNCHANGED <<spool, process_all_timer, is_processing, workers, missed, drops>>
    /\ UNCHANGED rcvVars
    /\ UNCHANGED notNodeVars

\* a test of the flag that lets every thread pass
AlreadyProcessing_Never == FALSE

\* lines 574 and 616: if self.is_processing, under processing_lock
AlreadyProcessing == is_processing

\* the smallest number no thread of `workers` has
NewWorker == CHOOSE id \in 1..MaxWorkers + 1 :
                /\ \A w \in workers : w.id # id
                /\ \A j \in 1..id - 1 : \E w \in workers : w.id = j

\* process_specific_folder, lines 613-620: the timer of
\* schedule_folder_processing fires; the thread returns when the flag is
\* set, else it sets the flag
process_specific_folder(folder_path) ==
    /\ folder_path \in process_timers
    /\ Cardinality(workers) < MaxWorkers
    /\ process_timers' = process_timers \ {folder_path}
    /\ IF AlreadyProcessing
       THEN UNCHANGED <<is_processing, workers>>
       ELSE /\ is_processing' = TRUE
            /\ workers' = workers \cup
                  {[id |-> NewWorker, kind |-> "specific", folder |-> folder_path,
                    pc |-> "list", batch |-> 0]}
    /\ UNCHANGED <<spool, folder_timers, process_all_timer, missed, drops>>
    /\ UNCHANGED rcvVars
    /\ UNCHANGED notNodeVars

\* process_folder, lines 644-668: the .dcm files of the folder are listed;
\* without any, a retry timer for the folder is started
list_folder(w) ==
    /\ w \in workers
    /\ w.pc = "list"
    /\ IF spool[w.folder] = 0
       THEN /\ folder_timers' = folder_timers \cup {w.folder}
            /\ workers' = (workers \ {w}) \cup {[w EXCEPT !.pc = "finally"]}
       ELSE /\ workers' = (workers \ {w}) \cup
                  {[w EXCEPT !.pc = "send", !.batch = spool[w.folder]]}
            /\ UNCHANGED folder_timers
    /\ UNCHANGED <<spool, process_timers, process_all_timer, is_processing, missed, drops>>
    /\ UNCHANGED rcvVars
    /\ UNCHANGED notNodeVars

\* process_folder, lines 670-749: the listed files go through
\* send_all_dicom_files, which leaves none of them in the folder (sent and
\* deleted, or moved to failed/)
send_folder(w) ==
    /\ w \in workers
    /\ w.pc = "send"
    /\ spool' = [spool EXCEPT ![w.folder] = @ - w.batch]
    /\ missed' = IF spool[w.folder] = w.batch THEN missed \ {w.folder} ELSE missed
    /\ workers' = (workers \ {w}) \cup {[w EXCEPT !.pc = "finally"]}
    /\ UNCHANGED <<folder_timers, process_timers, process_all_timer, is_processing, drops>>
    /\ UNCHANGED rcvVars
    /\ UNCHANGED notNodeVars

\* process_specific_folder, lines 637-642: finally, the flag is cleared
process_specific_folder_finally(w) ==
    /\ w \in workers
    /\ w.kind = "specific"
    /\ w.pc = "finally"
    /\ is_processing' = FALSE
    /\ workers' = workers \ {w}
    /\ UNCHANGED <<spool, folder_timers, process_timers, process_all_timer, missed, drops>>
    /\ UNCHANGED rcvVars
    /\ UNCHANGED notNodeVars

\* process_all_folders, lines 571-577: the timer of the round fires; the
\* thread returns when the flag is set (and starts no timer for a next
\* round), else it sets the flag
process_all_folders ==
    /\ process_all_timer
    /\ Cardinality(workers) < MaxWorkers
    /\ process_all_timer' = FALSE
    /\ IF AlreadyProcessing
       THEN UNCHANGED <<is_processing, workers>>
       ELSE /\ is_processing' = TRUE
            /\ workers' = workers \cup
                  {[id |-> NewWorker, kind |-> "all", folder |-> "", pc |-> "schedule",
                    batch |-> 0]}
    /\ UNCHANGED <<spool, folder_timers, process_timers, missed, drops>>
    /\ UNCHANGED rcvVars
    /\ UNCHANGED notNodeVars

\* process_all_folders, lines 579-596: schedule_folder_processing for every
\* folder of the spool, each call testing the flag
process_all_folders_schedule(w) ==
    /\ w \in workers
    /\ w.pc = "schedule"
    /\ process_timers' = IF ~is_processing THEN process_timers \cup Folders ELSE process_timers
    /\ workers' = (workers \ {w}) \cup {[w EXCEPT !.pc = "finally"]}
    /\ UNCHANGED <<spool, folder_timers, process_all_timer, is_processing, missed, drops>>
    /\ UNCHANGED rcvVars
    /\ UNCHANGED notNodeVars

\* process_all_folders, lines 601-608: finally, the flag is cleared and the
\* timer of the next round is started
process_all_folders_finally(w) ==
    /\ w \in workers
    /\ w.kind = "all"
    /\ w.pc = "finally"
    /\ is_processing' = FALSE
    /\ process_all_timer' = TRUE
    /\ workers' = workers \ {w}
    /\ UNCHANGED <<spool, folder_timers, process_timers, missed, drops>>
    /\ UNCHANGED rcvVars
    /\ UNCHANGED notNodeVars

\* every record a thread of the watcher can be
WorkerStates ==
    [id : 1..MaxWorkers, kind : {"specific", "all"}, folder : Folders \cup {""},
     pc : {"list", "send", "schedule", "finally"}, batch : 0..MaxDrops]

NextRcv ==
    \/ \E requestor_ae_title \in TRUSTED_AE_TITLES \cup {UNKNOWN_AE} : c_echo(requestor_ae_title)
    \/ \E raises \in BOOLEAN : node_handle_store(raises)
    \/ \E raises \in BOOLEAN : process_and_save_dicom(raises)

NextWatch ==
    \/ \E parent_folder \in Folders : handle_dicom_file(parent_folder)
    \/ \E parent_folder \in Folders : missed_event(parent_folder)
    \/ periodic_rescan
    \/ \E folder_path \in Folders : check_folder_for_processing(folder_path)
    \/ \E folder_path \in Folders : process_specific_folder(folder_path)
    \/ \E w \in WorkerStates : list_folder(w)
    \/ \E w \in WorkerStates : send_folder(w)
    \/ \E w \in WorkerStates : process_specific_folder_finally(w)
    \/ process_all_folders
    \/ \E w \in WorkerStates : process_all_folders_schedule(w)
    \/ \E w \in WorkerStates : process_all_folders_finally(w)

\* what the timers and the threads of the watcher are granted.  A started
\* timer fires and a thread that runs goes on (weak fairness).  The flag is
\* set for the time of one round or one folder send, and the timers run on
\* delays of their own (300 s, 14 s, 1 s): of the rescans, and of the
\* firings of a folder's timers that each rescan brings about, not all fall
\* into a moment at which the flag is set (strong fairness).
FairWatch ==
    /\ WF_vars(periodic_rescan)
    /\ SF_vars(periodic_rescan /\ ~is_processing)
    /\ \A f \in Folders :
          /\ WF_vars(check_folder_for_processing(f))
          /\ SF_vars(check_folder_for_processing(f) /\ ~is_processing)
          /\ WF_vars(process_specific_folder(f))
          /\ SF_vars(process_specific_folder(f) /\ ~is_processing)
    /\ WF_vars(\E w \in WorkerStates : list_folder(w))
    /\ WF_vars(\E w \in WorkerStates : send_folder(w))
    /\ WF_vars(\E w \in WorkerStates : process_specific_folder_finally(w))
    /\ WF_vars(\E w \in WorkerStates : process_all_folders_schedule(w))
    /\ WF_vars(\E w \in WorkerStates : process_all_folders_finally(w))

(***************************************************************************)
(* Part 7: what is in the files.  A received object is persisted twice on  *)
(* the network path: handle_store stages it in a temp file                 *)
(* (dicom_processor.py 185-213), and the flush places the temp file below  *)
(* the receive root (339-371 the plan, 382-422 a dose, 437-506 a CT or an  *)
(* RTSTRUCT).  The import path copies the files of the import folder       *)
(* (909-997, 1076-1078).  Which file goes to which folder is the subject   *)
(* of Part 4; here a file is followed through the steps that write it.     *)
(*                                                                         *)
(* A file is what its bytes hold: whether it starts with the preamble and  *)
(* the file meta group, the elements of the file meta group, the elements  *)
(* of the dataset, and the transfer syntax the dataset is encoded in.  Two *)
(* files have the same bytes iff they are equal as records.  An element    *)
(* that is absent is the empty string.                                     *)
(***************************************************************************)

\* the number of objects that are received or put into the import folder
MaxObjects == 2

ImplicitVRLittleEndian == "1.2.840.10008.1.2"

ExplicitVRLittleEndian == "1.2.840.10008.1.2.1"

\* what generate_uid() returns (lines 191-192)
generate_uid == "2.25.1"

\* a file meta group without elements: FileMetaDataset()
FileMetaDataset == [MediaStorageSOPInstanceUID |-> "", TransferSyntaxUID |-> ""]

\* the C-STORE requests of the model: the dataset with or without its
\* SOPInstanceUID, the Affected SOP Instance UID of the request, and the
\* transfer syntax of the presentation context (lines 101-103)
StoreRequests ==
    [Modality : {"RTPLAN", "RTDOSE", "CT", "RTSTRUCT"},
     SOPInstanceUID : {"", "1.2.1"},
     AffectedSOPInstanceUID : {"1.2.9"},
     TransferSyntaxUID : {ImplicitVRLittleEndian, ExplicitVRLittleEndian}]

\* event.request.DataSet.getvalue(), line 209: the bytes of the dataset as
\* they came over the association, without preamble and file meta group
getvalue(request) ==
    [preamble |-> FALSE,
     file_meta |-> FileMetaDataset,
     elements |-> [Modality |-> request.Modality,
                   SOPInstanceUID |-> request.SOPInstanceUID],
     encoding |-> request.TransferSyntaxUID]

\* lines 138-139: ds = event.dataset with ds.file_meta = event.file_meta,
\* which pynetdicom fills from the request and the presentation context
event_dataset(request) ==
    [file_meta |-> [MediaStorageSOPInstanceUID |-> request.AffectedSOPInstanceUID,
                    TransferSyntaxUID |-> request.TransferSyntaxUID],
     elements |-> [Modality |-> request.Modality,
                   SOPInstanceUID |-> request.SOPInstanceUID],
     encoding |-> request.TransferSyntaxUID]

\* pydicom.dcmread(path, force=True): the dataset of a file, with the file
\* meta group the file has
dcmread(file) ==
    [file_meta |-> file.file_meta, elements |-> file.elements, encoding |-> file.encoding]

\* lines 185-203 (and 346-363, 443-460, 481-498): the SOPInstanceUID is
\* taken from the file meta group or generated when the dataset has none,
\* and the MediaStorageSOPInstanceUID is set to the SOPInstanceUID
ensure_uids(ds) ==
    LET sop == IF ds.elements.SOPInstanceUID # "" THEN ds.elements.SOPInstanceUID
               ELSE IF ds.file_meta.MediaStorageSOPInstanceUID # ""
                    THEN ds.file_meta.MediaStorageSOPInstanceUID
                    ELSE generate_uid
    IN [ds EXCEPT !.elements.SOPInstanceUID = sop,
                  !.file_meta.MediaStorageSOPInstanceUID = sop]

\* Dataset.fix_meta_info, which dcmwrite(..., write_like_original=False)
\* calls: the transfer syntax of an implicit VR dataset is set, the
\* MediaStorageSOPInstanceUID is set from the dataset's SOPInstanceUID
fix_meta_info(ds) ==
    [MediaStorageSOPInstanceUID |->
        IF ds.elements.SOPInstanceUID # "" THEN ds.elements.SOPInstanceUID
        ELSE ds.file_meta.MediaStorageSOPInstanceUID,
     TransferSyntaxUID |->
        IF ds.encoding = ImplicitVRLittleEndian THEN ImplicitVRLittleEndian
        ELSE ds.file_meta.TransferSyntaxUID]

\* validate_file_meta(enforce_standard=True) raises when a required element
\* of the file meta group is missing or empty
dcmwrite_raises(ds) ==
    \/ fix_meta_info(ds).MediaStorageSOPInstanceUID = ""
    \/ fix_meta_info(ds).TransferSyntaxUID = ""

\* pydicom.dcmwrite(path, ds, write_like_original=False), lines 213, 366,
\* 463, 501: preamble, file meta group, and the dataset encoded in the
\* transfer syntax of the file meta group
dcmwrite(ds) ==
    [preamble |-> TRUE,
     file_meta |-> fix_meta_info(ds),
     elements |-> ds.elements,
     encoding |-> fix_meta_info(ds).TransferSyntaxUID]

\* a dose that is staged as every other object is
save_rtdose_Rewritten(request, ds) == dcmwrite(ds)

\* lines 205-210: an RTDOSE is staged by writing the bytes of the request
save_rtdose(request, ds) == getvalue(request)

\* lines 382-422: the temp file of a dose is copied (shutil.copy2); when
\* that raises it is copied again, or moved.  The header read of line 385
\* only logs what is missing.
place_dose(file, raises) == file

\* lines 339-371, 437-468, 475-506: the temp file of a plan, a CT or an
\* RTSTRUCT is read, its UIDs are ensured and it is written anew; when that
\* raises the temp file is moved (plan) or copied (CT, RTSTRUCT) as it is
place_rewritten(file, raises) ==
    LET ds == ensure_uids(dcmread(file))
    IN IF raises \/ dcmwrite_raises(ds) THEN file ELSE dcmwrite(ds)

\* the files the operator can put into the import folder: with or without
\* preamble and file meta group, the file meta group and the dataset with
\* or without their UIDs
ImportFiles ==
    {file \in [preamble : BOOLEAN,
               file_meta : [MediaStorageSOPInstanceUID : {"", "1.2.1"},
                            TransferSyntaxUID : {"", ImplicitVRLittleEndian}],
               elements : [Modality : {"RTPLAN", "RTDOSE"},
                           SOPInstanceUID : {"", "1.2.1"}],
               encoding : {ImplicitVRLittleEndian}] :
        ~file.preamble => file.file_meta = FileMetaDataset}

InitFiles ==
    /\ temp_files = << >>
    /\ import_dir = << >>
    /\ receive_root = {}
    /\ persisted = {}
    /\ n_objects = 0

\* one entry of the history `persisted`
Written(step, received, file, fallback) ==
    [step |-> step, received |-> received, file |-> file, fallback |-> fallback]

\* handle_store, lines 134-249, for what it writes: the dataset of the
\* event gets its UIDs, and the temp file is written, from the bytes of the
\* request for an RTDOSE and with dcmwrite otherwise.  When the write
\* raises, the handler returns 0xC001 and nothing is staged.
store_object(request, raises) ==
    /\ n_objects < MaxObjects
    /\ n_objects' = n_objects + 1
    /\ LET ds == ensure_uids(event_dataset(request))
           file == IF request.Modality = "RTDOSE"
                   THEN save_rtdose(request, ds)
                   ELSE dcmwrite(ds)
       IN IF raises \/ (request.Modality # "RTDOSE" /\ dcmwrite_raises(ds))
          THEN UNCHANGED <<temp_files, persisted>>
          ELSE /\ temp_files' = Append(temp_files,
                                    [file |-> file, received |-> getvalue(request)])
               /\ persisted' = persisted
                     \cup {Written("staging", getvalue(request), file, FALSE)}
    /\ UNCHANGED <<import_dir, receive_root>>
    /\ UNCHANGED notFileVars

\* _group_and_move_received_files, lines 251-515, for what it writes: the
\* temp files the grouping places go below the receive root, a dose by
\* copy, the others rewritten, each by its fallback when the first attempt
\* raises; every temp file is gone afterwards (lines 509-515)
place_temp_files(placed, failing) ==
    /\ temp_files # << >>
    /\ placed \subseteq 1..Len(temp_files)
    /\ failing \subseteq placed
    /\ LET dest(i) == IF dcmread(temp_files[i].file).elements.Modality = "RTDOSE"
                      THEN place_dose(temp_files[i].file, i \in failing)
                      ELSE place_rewritten(temp_files[i].file, i \in failing)
       IN /\ receive_root' = receive_root
                \cup {[file |-> dest(i), via |-> "flush"] : i \in placed}
          /\ persisted' = persisted
                \cup {Written("placement", temp_files[i].received, dest(i), i \in failing) :
                        i \in placed}
    /\ temp_files' = << >>
    /\ UNCHANGED <<import_dir, n_objects>>
    /\ UNCHANGED notFileVars

\* the operator puts a file into the import folder
put_import_file(file) ==
    /\ n_objects < MaxObjects
    /\ n_objects' = n_objects + 1
    /\ import_dir' = Append(import_dir, file)
    /\ UNCHANGED <<temp_files, receive_root, persisted>>
    /\ UNCHANGED notFileVars

\* process_import_folder, lines 909-997 and 1076-1078, for what it writes:
\* every file it places is copied with shutil.copy2; the import folder is
\* emptied afterwards (lines 1100-1130)
import_copy(placed) ==
    /\ import_dir # << >>
    /\ placed \subseteq 1..Len(import_dir)
    /\ receive_root' = receive_root
          \cup {[file |-> import_dir[i], via |-> "import"] : i \in placed}
    /\ persisted' = persisted
          \cup {Written("import", import_dir[i], import_dir[i], FALSE) : i \in placed}
    /\ import_dir' = << >>
    /\ UNCHANGED <<temp_files, n_objects>>
    /\ UNCHANGED notFileVars

NextFiles ==
    \/ \E request \in StoreRequests, raises \in BOOLEAN : store_object(request, raises)
    \/ \E placed, failing \in SUBSET (1..MaxObjects) : place_temp_files(placed, failing)
    \/ \E file \in ImportFiles : put_import_file(file)
    \/ \E placed \in SUBSET (1..MaxObjects) : import_copy(placed)

(***************************************************************************)
(* Part 8: rule-driven forwarding of a placed plan folder.  After the      *)
(* grouping, _group_and_move_received_files (dicom_processor.py 517-567)   *)
(* and process_import_folder (1289-1363) call send_plan_to_node once per   *)
(* target the rules return, one after the other; the sends are those of    *)
(* Part 3.  Nothing is placed into the folder while it is forwarded.       *)
(***************************************************************************)

\* the number of targets the rules return for a plan
MaxTargets == 2

InitForward == forwarding = [pc |-> "idle"]

\* a send that deletes the folder after a Success
forward_delete_after_Set == TRUE

\* send_plan_to_node(self, plan_path, node_info, delete_after=False), line
\* 1551, as the call of line 555 (and 1345) binds it: the call passes no
\* third argument
forward_delete_after == FALSE

\* a file is written into the plan folder by the grouper
forward_place_file(name) ==
    /\ forwarding.pc = "idle"
    /\ place_file(name)

\* lines 546-552: the plan folder exists and check_forwarding_rules
\* returned target_nodes
forward_plan(target_nodes) ==
    /\ forwarding.pc = "idle"
    /\ send.pc = "idle"
    /\ plan_folder # {}
    /\ forwarding' = [pc |-> "forwarding", before |-> plan_folder,
                      target_nodes |-> target_nodes, results |-> << >>,
                      attempts |-> << >>]
    /\ UNCHANGED sendVars
    /\ UNCHANGED notFwdVars

\* line 555: success = self.send_plan_to_node(plan_folder, node_info), up to
\* the association
forward_send(assoc) ==
    /\ forwarding.pc = "forwarding"
    /\ send_plan_to_node(forward_delete_after, assoc)

\* the C-STORE of one file of the folder
forward_send_file(outcome) ==
    /\ forwarding.pc = "forwarding"
    /\ _send_files_to_node(outcome)

\* the return of send_plan_to_node
forward_send_return ==
    /\ forwarding.pc = "forwarding"
    /\ send_plan_to_node_return

\* a loop over target_nodes that ends with the first send that fails
for_target_nodes_Break(results, target_nodes) ==
    IF Len(results) = target_nodes \/ ~results[Len(results)] THEN "done" ELSE "forwarding"

\* lines 553-561 (and 1337-1356): for node_name, node_info in target_nodes,
\* with the try/except inside the loop: the loop ends after the last target
for_target_nodes(results, target_nodes) ==
    IF Len(results) = target_nodes THEN "done" ELSE "forwarding"

\* lines 555-561: the result is logged, and the loop goes on with the next
\* target whatever the result was (an exception of the send is caught at
\* line 560).  `attempts` notes the files the send had listed.
forward_next ==
    /\ forwarding.pc = "forwarding"
    /\ send.pc = "done"
    /\ LET success == send.established /\ send.success_count = Len(send.batch)
           results == Append(forwarding.results, success)
       IN forwarding' = [forwarding EXCEPT
              !.results = results,
              !.attempts = Append(@, Range(send.listing)),
              !.pc = for_target_nodes(results, forwarding.target_nodes)]
    /\ send' = Idle
    /\ UNCHANGED <<plan_folder, failed_folder, cstore_log, assoc_count, released_at, removed>>
    /\ UNCHANGED notFwdVars

NextForward ==
    \/ \E name \in FileNames : forward_place_file(name)
    \/ \E target_nodes \in 1..MaxTargets : forward_plan(target_nodes)
    \/ \E assoc \in AssocOutcomes : forward_send(assoc)
    \/ \E outcome \in StoreOutcomes : forward_send_file(outcome)
    \/ forward_send_return
    \/ forward_next

(***************************************************************************)
(* Part 9: the two sanitisers, as functions on strings.  A call is made    *)
(* with a string over SanitiseChars of at most MaxLen characters; the      *)
(* state keeps, for each function, the argument of its last call, the      *)
(* result, and the result of a call on the result.                         *)
(***************************************************************************)
MaxLen == 3

\* the space, the two characters sanitize_path_component replaces first
\* (sanitize_folder_name replaces them too), and a tab, which only
\* sanitize_path_component replaces
SanitiseChars == {" ", ":", "/", "\t"}

SanitiseInputs == UNION {[1..n -> SanitiseChars] : n \in 0..MaxLen}

\* DICOMnode.py 127-129: re.sub(r'[<>:"/\\|?*^]', '_', name)
sanitize_folder_name(name) ==
    [i \in 1..Len(name) |->
        IF name[i] \in {"<", ">", ":", "\"", "/", "\\", "|", "?", "*", "^"}
        THEN "_" ELSE name[i]]

\* a call: the argument, the result, and the result of a call on the result
NoCall == [name |-> << >>, once |-> << >>, twice |-> << >>]

InitSanitise ==
    sanitised = [sanitize_path_component |-> NoCall, sanitize_folder_name |-> NoCall]

call_sanitize_path_component(name) ==
    /\ sanitised' = [sanitised EXCEPT !.sanitize_path_component =
                        [name |-> name,
                         once |-> sanitize_path_component(name),
                         twice |-> sanitize_path_component(sanitize_path_component(name))]]
    /\ UNCHANGED notSanVars

call_sanitize_folder_name(name) ==
    /\ sanitised' = [sanitised EXCEPT !.sanitize_folder_name =
                        [name |-> name,
                         once |-> sanitize_folder_name(name),
                         twice |-> sanitize_folder_name(sanitize_folder_name(name))]]
    /\ UNCHANGED notSanVars

NextSanitise ==
    \/ \E name \in SanitiseInputs : call_sanitize_path_component(name)
    \/ \E name \in SanitiseInputs : call_sanitize_folder_name(name)

(***************************************************************************)
(* Part 11: the reaper of empty folders, DICOMFolderWatcher                *)
(* .cleanup_empty_folders (DICOMnode.py 991-1016), started by              *)
(* schedule_cleanup (462-465) and by the constructor (454).  The spool     *)
(* holds failed/, a patient folder and a folder below it; other threads    *)
(* put files into folders and remove them while the walk is under way.     *)
(* A directory's mtime changes when an entry is made or removed in it.     *)
(* Time is counted in minutes.                                             *)
(***************************************************************************)
\* the last minute of the clock
MaxMinutes == 6

\* line 1008: 180 s
EMPTY_AGE == 3

\* the directories below the watch folder, and the parent of each; ""
\* stands for the watch folder itself
SpoolDirs == {"failed", "patient", "patient/series"}

Parent(dir) == IF dir = "patient/series" THEN "patient" ELSE ""

\* no age passes this test
IsOld_Always(now_, last_modified) == TRUE

\* line 1008: now - last_modified > 180
IsOld(now_, last_modified) == now_ - last_modified > EMPTY_AGE

\* os.listdir(dir_path): the files and the directories in it
listdir(dir) ==
    spool_dirs[dir].files + Cardinality({d \in SpoolDirs : Parent(d) = dir /\ spool_dirs[d].exists})

\* an entry was made or removed in the directory: its mtime is the time of
\* the change (the watch folder's own mtime is not kept)
Touch(tree, dir) ==
    IF dir = "" THEN tree ELSE [tree EXCEPT ![dir].mtime = minute]

InitReap ==
    /\ minute = 0
    /\ spool_dirs = [d \in SpoolDirs |-> [exists |-> d = "failed", files |-> 0, mtime |-> 0]]
    /\ reap = [pc |-> "idle"]
    /\ reaped = {}

\* a minute passes
reap_tick ==
    /\ minute < MaxMinutes
    /\ minute' = minute + 1
    /\ UNCHANGED <<spool_dirs, reap, reaped>>
    /\ UNCHANGED notReapVars

\* os.makedirs of a folder whose parent exists (process_and_save_dicom,
\* lines 243 and 246)
makedirs(dir) ==
    /\ ~spool_dirs[dir].exists
    /\ IF Parent(dir) = "" THEN TRUE ELSE spool_dirs[Parent(dir)].exists
    /\ spool_dirs' = Touch([spool_dirs EXCEPT ![dir] =
                                [exists |-> TRUE, files |-> 0, mtime |-> minute]],
                           Parent(dir))
    /\ UNCHANGED <<minute, reap, reaped>>
    /\ UNCHANGED notReapVars

\* a file is written into a folder (a received object, or a file moved to
\* failed/)
put_file(dir) ==
    /\ spool_dirs[dir].exists
    /\ spool_dirs[dir].files = 0
    /\ spool_dirs' = Touch([spool_dirs EXCEPT ![dir].files = 1], dir)
    /\ UNCHANGED <<minute, reap, reaped>>
    /\ UNCHANGED notReapVars

\* the file of a folder is removed (sent and deleted, line 826)
take_file(dir) ==
    /\ spool_dirs[dir].exists
    /\ spool_dirs[dir].files = 1
    /\ spool_dirs' = Touch([spool_dirs EXCEPT ![dir].files = 0], dir)
    /\ UNCHANGED <<minute, reap, reaped>>
    /\ UNCHANGED notReapVars

\* lines 993-996: now = time.time(), and os.walk(topdown=False) lists the
\* watch folder and the folders below it before it yields: the directories
\* are visited children first, the top level in the order of the listing
cleanup_empty_folders(top) ==
    /\ reap.pc = "idle"
    /\ top \in Listings({d \in SpoolDirs : Parent(d) = "" /\ spool_dirs[d].exists})
    /\ reap' = [pc |-> "walk", now |-> minute,
                dirs |-> (IF spool_dirs["patient"].exists /\ spool_dirs["patient/series"].exists
                          THEN <<"patient/series">> ELSE << >>) \o top]
    /\ UNCHANGED <<minute, spool_dirs, reaped>>
    /\ UNCHANGED notReapVars

\* lines 997-1014, one dir_name of the loop: failed/ is skipped; a
\* directory that lists empty and is old is removed with os.rmdir
cleanup_dir ==
    /\ reap.pc = "walk"
    /\ reap.dirs # << >>
    /\ LET dir_path == Head(reap.dirs)
       IN IF /\ dir_path # "failed"
             /\ spool_dirs[dir_path].exists
             /\ listdir(dir_path) = 0
             /\ IsOld(reap.now, spool_dirs[dir_path].mtime)
          THEN /\ spool_dirs' = Touch([spool_dirs EXCEPT ![dir_path].exists = FALSE],
                                      Parent(dir_path))
               /\ reaped' = reaped \cup {dir_path}
          ELSE UNCHANGED <<spool_dirs, reaped>>
    /\ reap' = [reap EXCEPT !.dirs = Tail(@)]
    /\ UNCHANGED minute
    /\ UNCHANGED notReapVars

\* lines 1015-1016: the walk is over
cleanup_return ==
    /\ reap.pc = "walk"
    /\ reap.dirs = << >>
    /\ reap' = [pc |-> "idle"]
    /\ UNCHANGED <<minute, spool_dirs, reaped>>
    /\ UNCHANGED notReapVars

NextReap ==
    \/ reap_tick
    \/ \E dir \in SpoolDirs : makedirs(dir)
    \/ \E dir \in SpoolDirs : put_file(dir)
    \/ \E dir \in SpoolDirs : take_file(dir)
    \/ \E top \in UNION {[1..n -> SpoolDirs] : n \in 0..2} : cleanup_empty_folders(top)
    \/ cleanup_dir
    \/ cleanup_return

(***************************************************************************)
(* Part 12: start_receiver (DICOMnode.py 360-390), the loop that keeps the *)
(* Store SCP of the node running.  ae.start_server blocks while the        *)
(* listener runs; an exception, raised when the listener is started or     *)
(* while it runs, is caught in the loop, which sleeps and starts over.     *)
(* Time is counted in seconds.                                             *)
(***************************************************************************)
\* the failures counted (the count stops there, the failures do not)
MaxFailures == 4

\* line 390: time.sleep(10)
BACKOFF == 10

\* a sleep that returns at once
sleep_over_AtOnce(slept) == TRUE

\* time.sleep(10) returns
sleep_over(slept) == slept = BACKOFF

InitReceiver ==
    /\ listener = [pc |-> "try", slept |-> 0, after_failure |-> FALSE, raised_in |-> ""]
    /\ last_start = [after_failure |-> FALSE, slept |-> 0]
    /\ failures = 0

\* lines 362-385: the AE is built and ae.start_server is called
start_receiver_try ==
    /\ listener.pc = "try"
    /\ listener' = [listener EXCEPT !.pc = "start_server"]
    /\ last_start' = [after_failure |-> listener.after_failure, slept |-> listener.slept]
    /\ UNCHANGED failures
    /\ UNCHANGED notRcvLoopVars

\* line 385: the server is bound and serves; the call blocks
start_server_listening ==
    /\ listener.pc = "start_server"
    /\ listener' = [listener EXCEPT !.pc = "listening"]
    /\ UNCHANGED <<last_start, failures>>
    /\ UNCHANGED notRcvLoopVars

\* line 385 raises (the port is taken, the address is not valid), or the
\* running listener ends with an exception: lines 386-389
start_server_raises ==
    /\ listener.pc \in {"start_server", "listening"}
    /\ listener' = [pc |-> "sleep", slept |-> 0, after_failure |-> TRUE,
                     raised_in |-> listener.pc]
    /\ failures' = IF failures < MaxFailures THEN failures + 1 ELSE failures
    /\ UNCHANGED last_start
    /\ UNCHANGED notRcvLoopVars

\* line 390: a second of the sleep passes
sleep_second ==
    /\ listener.pc = "sleep"
    /\ listener.slept < BACKOFF
    /\ listener' = [listener EXCEPT !.slept = @ + 1]
    /\ UNCHANGED <<last_start, failures>>
    /\ UNCHANGED notRcvLoopVars

\* line 390 returns, and the loop of line 362 starts over
sleep_return ==
    /\ listener.pc = "sleep"
    /\ sleep_over(listener.slept)
    /\ listener' = [listener EXCEPT !.pc = "try"]
    /\ UNCHANGED <<last_start, failures>>
    /\ UNCHANGED notRcvLoopVars

NextReceiver ==
    \/ start_receiver_try
    \/ start_server_listening
    \/ start_server_raises
    \/ sleep_second
    \/ sleep_return

\* the loop runs on: the thread of start_receiver is scheduled, the sleep
\* ends, and a start that is tried again and again succeeds at some time
FairReceiver ==
    /\ WF_vars(start_receiver_try)
    /\ WF_vars(sleep_second)
    /\ WF_vars(sleep_return)
    /\ SF_vars(start_server_listening)

(***************************************************************************)
(* Part 13: move_to_failed of DicomProcessor (dicom_processor.py 582-615)  *)
(* and of DICOMFolderWatcher (DICOMnode.py 961-978).  A path is a pair of  *)
(* a directory and a basename; both are called from loops over os.walk,    *)
(* so files of different directories with one basename reach them.  An     *)
(* entry of failed/ is named by the second of the clock and the basename.  *)
(***************************************************************************)

MaxSeconds == 2
MaxMoves == 3

Movers == {"DicomProcessor", "DICOMFolderWatcher"}
FailedPaths == {"a", "b"} \X {"x.dcm", "y.dcm"}
ErrorMessages == {"Lesefehler", "Error reading file"}

\* the part of the callers' messages that precedes the exception text:
\* dicom_processor.py 669 and 804, DICOMnode.py 727
error_message_of(mover) ==
    IF mover = "DicomProcessor" THEN "Lesefehler" ELSE "Error reading file"

\* f"{timestamp}_{basename}": dicom_processor.py 598-600, DICOMnode.py
\* 965-968; the timestamp is "%Y%m%d_%H%M%S", the second of the clock
failed_name(file_path) == <<clock_second, file_path[2]>>

\* the file has no sibling .error file
NoErrorFile == [error_msg |-> "", original |-> <<>>, second |-> -1]

InitFailed ==
    /\ clock_second = 0
    /\ source_files = [mover \in Movers |-> FailedPaths]
    /\ failed_entries = [mover \in Movers |-> << >>]
    /\ send_errors_log = << >>
    /\ move_calls = << >>

\* a second passes between two calls
second_passes ==
    /\ clock_second < MaxSeconds
    /\ clock_second' = clock_second + 1
    /\ UNCHANGED <<source_files, failed_entries, send_errors_log, move_calls>>
    /\ UNCHANGED notFailedVars

\* DicomProcessor.move_to_failed, lines 582-615: the file exists (590),
\* shutil.move replaces what the destination held (603), and the .error file
\* is opened with 'w' (606-610)
DicomProcessor_move_to_failed(file_path, error_msg) ==
    LET dest_file == failed_name(file_path)
        entry == [content |-> file_path,
                  error |-> [error_msg |-> error_msg, original |-> file_path,
                             second |-> clock_second]]
    IN  /\ Len(move_calls) < MaxMoves
        /\ file_path \in source_files["DicomProcessor"]
        /\ source_files' = [source_files EXCEPT
               !["DicomProcessor"] = @ \ {file_path}]
        /\ failed_entries' = [failed_entries EXCEPT
               !["DicomProcessor"] = WriteFile(@, dest_file, entry)]
        /\ move_calls' = Append(move_calls,
               [mover |-> "DicomProcessor", file_path |-> file_path,
                error_msg |-> error_msg, second |-> clock_second])
        /\ UNCHANGED <<clock_second, send_errors_log>>
        /\ UNCHANGED notFailedVars

\* DICOMFolderWatcher.move_to_failed, lines 961-978: shutil.copy2 replaces
\* what the destination held (971), os.remove deletes the source (972), and
\* log_error appends a line to the log file of the failed folder (975,
\* 980-987); no .error file is written
DICOMFolderWatcher_move_to_failed(file_path, error_message) ==
    LET destination == failed_name(file_path)
        entry == [content |-> file_path, error |-> NoErrorFile]
    IN  /\ Len(move_calls) < MaxMoves
        /\ file_path \in source_files["DICOMFolderWatcher"]
        /\ source_files' = [source_files EXCEPT
               !["DICOMFolderWatcher"] = @ \ {file_path}]
        /\ failed_entries' = [failed_entries EXCEPT
               !["DICOMFolderWatcher"] = WriteFile(@, destination, entry)]
        /\ send_errors_log' = Append(send_errors_log,
               [second |-> clock_second, context |-> file_path,
                error |-> error_message])
        /\ move_calls' = Append(move_calls,
               [mover |-> "DICOMFolderWatcher", file_path |-> file_path,
                error_msg |-> error_message, second |-> clock_second])
        /\ UNCHANGED clock_second
        /\ UNCHANGED notFailedVars

NextFailed ==
    \/ second_passes
    \/ \E file_path \in FailedPaths :
           DicomProcessor_move_to_failed(file_path,
               error_message_of("DicomProcessor"))
    \/ \E file_path \in FailedPaths :
           DICOMFolderWatcher_move_to_failed(file_path,
               error_message_of("DICOMFolderWatcher"))

(***************************************************************************)
(* Part 14: the setting clear_import_folder_after_import and the files of  *)
(* the import folder that are no DICOM files.  process_import_folder of    *)
(* Part 4 reads the setting (dicom_processor.py 1092) and clears the       *)
(* folder (1103-1220).                                                     *)
(***************************************************************************)

\* files without the ending .dcm: process_import_folder skips them (806)
OtherFiles == {"notes.txt", "export.log"}

\* main.py 199: the settings.ini written at the first start
InitImport ==
    /\ clear_import_folder_after_import = FALSE
    /\ import_others = {}

\* SettingsDialog.save_settings, settings_dialog.py 40-52
save_settings(checked) ==
    /\ clear_import_folder_after_import' = checked
    /\ UNCHANGED import_others
    /\ UNCHANGED notImportVars

\* the operator puts a file that is no DICOM file into the import folder
copy_other_into_import_folder(name) ==
    /\ name \notin import_others
    /\ import_others' = import_others \cup {name}
    /\ UNCHANGED clear_import_folder_after_import
    /\ UNCHANGED notImportVars

NextImport ==
    \/ \E name \in ObjectNames : copy_into_import_folder(name)
    \/ \E name \in OtherFiles : copy_other_into_import_folder(name)
    \/ \E checked \in BOOLEAN : save_settings(checked)
    \/ process_import_folder

(***************************************************************************)
(* Part 15: the Timer objects of the folder watcher (DICOMnode.py).  A     *)
(* threading.Timer waits, and then calls its function unless cancel() came *)
(* before the end of the wait; a cancel() after that changes nothing, and  *)
(* is_alive() stays true until the function has returned.  The timers of   *)
(* self.folder_timers call check_folder_for_processing, which takes        *)
(* timer_lock only after the timer has fired.                              *)
(***************************************************************************)

MaxTimers == 4

InitTimers ==
    /\ timers = << >>
    /\ timer_dict = << >>
    /\ to_process = {}

\* threading.Timer(...).start(): a new Timer object, waiting
NewTimer(folder) == [folder |-> folder, state |-> "waiting"]

\* Timer.is_alive(): the thread has been started and has not ended
is_alive(t) == timers[t].state \in {"waiting", "fired"}

\* Timer.cancel(): ends the wait of a timer that still waits
Cancel(all, t) ==
    IF all[t].state = "waiting" THEN [all EXCEPT ![t].state = "cancelled"] ELSE all

\* self.folder_timers[folder] = timer
SetTimer(dict, folder, t) ==
    [f \in DOMAIN dict \cup {folder} |-> IF f = folder THEN t ELSE dict[f]]

\* handle_dicom_file, lines 506-534, for an event in parent_folder: under
\* timer_lock the recorded timer is cancelled if it is alive (520-521), and a
\* new timer is started and recorded (524-526)
timer_handle_dicom_file(parent_folder) ==
    /\ Len(timers) < MaxTimers
    /\ LET cancelled ==
               IF parent_folder \in DOMAIN timer_dict /\ is_alive(timer_dict[parent_folder])
               THEN Cancel(timers, timer_dict[parent_folder])
               ELSE timers
       IN /\ timers' = Append(cancelled, NewTimer(parent_folder))
          /\ timer_dict' = SetTimer(timer_dict, parent_folder, Len(timers) + 1)
    /\ UNCHANGED to_process
    /\ UNCHANGED notTimerVars

\* the wait of timer t ends: its thread calls check_folder_for_processing
timer_fires(t) ==
    /\ timers[t].state = "waiting"
    /\ timers' = [timers EXCEPT ![t].state = "fired"]
    /\ UNCHANGED <<timer_dict, to_process>>
    /\ UNCHANGED notTimerVars

\* check_folder_for_processing, lines 536-555, called by timer t: under
\* timer_lock the entry of the folder is deleted, whichever timer it holds
\* (540-542); then the folder is scheduled for processing (551)
timer_check_folder_for_processing(t) ==
    LET folder_path == timers[t].folder
    IN  /\ timers[t].state = "fired"
        /\ timers' = [timers EXCEPT ![t].state = "done"]
        /\ timer_dict' = [f \in DOMAIN timer_dict \ {folder_path} |-> timer_dict[f]]
        /\ to_process' = to_process \cup {folder_path}
        /\ UNCHANGED notTimerVars

\* process_folder, lines 644-668, on a scheduled folder: without a .dcm
\* file in it, the recorded timer is cancelled (661-662) and a retry timer
\* is started and recorded (664-666); with files, they are sent
timer_process_folder(folder_path, all_files) ==
    /\ folder_path \in to_process
    /\ to_process' = to_process \ {folder_path}
    /\ IF all_files = 0
       THEN /\ Len(timers) < MaxTimers
            /\ LET cancelled ==
                       IF folder_path \in DOMAIN timer_dict
                       THEN Cancel(timers, timer_dict[folder_path])
                       ELSE timers
               IN /\ timers' = Append(cancelled, NewTimer(folder_path))
                  /\ timer_dict' = SetTimer(timer_dict, folder_path, Len(timers) + 1)
       ELSE UNCHANGED <<timers, timer_dict>>
    /\ UNCHANGED notTimerVars

\* periodic_rescan, lines 467-496, for a patient folder with a .dcm file
\* below it: a retry timer is started only if the folder has no entry
\* (485-488)
timer_periodic_rescan(patient_path) ==
    /\ Len(timers) < MaxTimers
    /\ patient_path \notin DOMAIN timer_dict
    /\ timers' = Append(timers, NewTimer(patient_path))
    /\ timer_dict' = SetTimer(timer_dict, patient_path, Len(timers) + 1)
    /\ UNCHANGED to_process
    /\ UNCHANGED notTimerVars

NextTimers ==
    \/ \E parent_folder \in Folders : timer_handle_dicom_file(parent_folder)
    \/ \E t \in 1..Len(timers) : timer_fires(t)
    \/ \E t \in 1..Len(timers) : timer_check_folder_for_processing(t)
    \/ \E folder_path \in Folders, all_files \in 0..1 :
           timer_process_folder(folder_path, all_files)
    \/ \E patient_path \in Folders : timer_periodic_rescan(patient_path)

(***************************************************************************)
(* Part 16: the folder watcher in seconds.  An event for a .dcm file arms  *)
(* the timer of the file's directory (DICOMnode.py 506-526); the rescan    *)
(* and the startup processing arm the timer of a patient folder (467-496,  *)
(* 1054-1062).  A timer that fires starts, one second later, the           *)
(* processing of its folder (536-569), which sends every .dcm file found   *)
(* by os.walk below the folder (613-668).  Timers are taken as exact and   *)
(* the processing as immediate.                                            *)
(***************************************************************************)

MaxClock == 16
MaxEvents == 2

\* line 524: threading.Timer(13.0, self.check_folder_for_processing, ...)
INACTIVITY == 13
\* lines 486, 664 and 1060: threading.Timer(14.0, ...)
RETRY == 14
\* line 563: threading.Timer(1.0, lambda: self.process_specific_folder(...))
PROCESS_DELAY == 1

PatientFolder == "spool/P42"
SeriesFolder == "spool/P42/series"
WatchDirs == {PatientFolder, SeriesFolder}

\* the directories os.walk(folder_path) visits
Walk(folder_path) == IF folder_path = PatientFolder THEN WatchDirs ELSE {folder_path}

InitActivity ==
    /\ watch_clock = 0
    /\ dir_files = [dir \in WatchDirs |-> 0]
    /\ last_event = [dir \in WatchDirs |-> -1]   \* no event yet
    /\ events = 0
    /\ inactivity_timers = << >>
    /\ processing_timers = {}
    /\ sent_from = {}

\* self.folder_timers[folder] = a timer that fires at `at`; a timer the
\* folder had is cancelled
Arm(all, folder, at) ==
    [f \in DOMAIN all \cup {folder} |-> IF f = folder THEN at ELSE all[f]]

\* a second passes; no timer is overdue
activity_tick ==
    /\ watch_clock < MaxClock
    /\ \A f \in DOMAIN inactivity_timers : inactivity_timers[f] > watch_clock
    /\ \A p \in processing_timers : p.at > watch_clock
    /\ watch_clock' = watch_clock + 1
    /\ UNCHANGED <<dir_files, last_event, events, inactivity_timers, processing_timers,
                   sent_from>>
    /\ UNCHANGED notActivityVars

\* on_created / on_modified with handle_dicom_file, lines 498-534: a .dcm
\* file is written into the directory parent_folder
activity_handle_dicom_file(parent_folder) ==
    /\ events < MaxEvents
    /\ events' = events + 1
    /\ dir_files' = [dir_files EXCEPT ![parent_folder] = 1]
    /\ last_event' = [last_event EXCEPT ![parent_folder] = watch_clock]
    /\ inactivity_timers' = Arm(inactivity_timers, parent_folder, watch_clock + INACTIVITY)
    /\ UNCHANGED <<watch_clock, processing_timers, sent_from>>
    /\ UNCHANGED notActivityVars

\* periodic_rescan, lines 467-496 (initial_folder_processing, 1054-1062,
\* does the same without looking for files): the patient folder holds a
\* .dcm file at some depth and has no entry in folder_timers
activity_periodic_rescan ==
    /\ \E dir \in Walk(PatientFolder) : dir_files[dir] > 0
    /\ PatientFolder \notin DOMAIN inactivity_timers
    /\ inactivity_timers' = Arm(inactivity_timers, PatientFolder, watch_clock + RETRY)
    /\ UNCHANGED <<watch_clock, dir_files, last_event, events, processing_timers, sent_from>>
    /\ UNCHANGED notActivityVars

\* check_folder_for_processing with schedule_folder_processing, lines
\* 536-569: the timer of the folder fires, its entry is deleted, and the
\* processing of the folder is started one second later
activity_check_folder_for_processing(folder_path) ==
    /\ folder_path \in DOMAIN inactivity_timers
    /\ inactivity_timers[folder_path] = watch_clock
    /\ inactivity_timers' =
           [f \in DOMAIN inactivity_timers \ {folder_path} |-> inactivity_timers[f]]
    /\ processing_timers' = processing_timers \cup
           {[folder |-> folder_path, at |-> watch_clock + PROCESS_DELAY]}
    /\ UNCHANGED <<watch_clock, dir_files, last_event, events, sent_from>>
    /\ UNCHANGED notActivityVars

\* process_specific_folder with process_folder, lines 613-668 and 670-749:
\* every .dcm file below the folder is sent; without any, a retry timer is
\* recorded for the folder
activity_process_specific_folder(p) ==
    LET all_files == {dir \in Walk(p.folder) : dir_files[dir] > 0}
    IN  /\ p \in processing_timers
        /\ p.at = watch_clock
        /\ processing_timers' = processing_timers \ {p}
        /\ IF all_files = {}
           THEN /\ inactivity_timers' =
                       Arm(inactivity_timers, p.folder, watch_clock + RETRY)
                /\ UNCHANGED <<dir_files, sent_from>>
           ELSE /\ sent_from' = sent_from \cup
                       {[dir |-> dir, at |-> watch_clock, event |-> last_event[dir]] :
                            dir \in all_files}
                /\ dir_files' = [dir \in WatchDirs |->
                                    IF dir \in all_files THEN 0 ELSE dir_files[dir]]
                /\ UNCHANGED inactivity_timers
        /\ UNCHANGED <<watch_clock, last_event, events>>
        /\ UNCHANGED notActivityVars

NextActivity ==
    \/ activity_tick
    \/ \E parent_folder \in WatchDirs : activity_handle_dicom_file(parent_folder)
    \/ activity_periodic_rescan
    \/ \E folder_path \in WatchDirs : activity_check_folder_for_processing(folder_path)
    \/ \E p \in processing_timers : activity_process_specific_folder(p)

(***************************************************************************)
(* Part 18: send_all_dicom_files, one call from its entry to its return,   *)
(* in both classes (dicom_processor.py 1417-1549, DICOMnode.py 752-860).   *)
(* The peer decides the outcome of associate, of every C-STORE and of      *)
(* release.  The call is followed with the files that lie in the folder    *)
(* and in failed/.                                                         *)
(***************************************************************************)

\* the files of the (file_path, ds) pairs handed to the call
XferFiles == {"CT.1.dcm", "RTPLAN_H.dcm", "RTDOSE_H.dcm"}

\* the classes that define send_all_dicom_files
XferEngines == {"DicomProcessor", "DICOMFolderWatcher"}

\* assoc.release(): it returns, or it raises
ReleaseOutcomes == {"released", "raised"}

NoXfer ==
    [pc |-> "idle", engine |-> "DicomProcessor", delete_after |-> FALSE,
     file_dataset_pairs |-> << >>, i |-> 1, success_count |-> 0,
     failed_files |-> << >>, stored |-> {}]

InitXfer ==
    /\ xfer = NoXfer
    /\ xfer_folder = {}
    /\ xfer_failed = {}

\* the call up to the loop (1431-1464; 754-769): counters are set, the
\* association is requested.  An association that is not established marks
\* every file as failed (1533-1536; 844-848), and so does associate raising
\* (1538-1542; 850-854).  The watcher has no delete_after parameter and
\* deletes every file it has sent (826).
xfer_call(engine, delete_after, file_dataset_pairs, assoc) ==
    /\ xfer.pc \in {"idle", "done"}
    /\ engine = "DICOMFolderWatcher" => delete_after
    /\ xfer_folder' = Range(file_dataset_pairs)
    /\ xfer_failed' = {}
    /\ xfer' = [pc |-> IF assoc = "established" THEN "sending" ELSE "moving",
                engine |-> engine, delete_after |-> delete_after,
                file_dataset_pairs |-> file_dataset_pairs, i |-> 1,
                success_count |-> 0,
                failed_files |-> IF assoc = "established" THEN << >>
                                 ELSE file_dataset_pairs,
                stored |-> {}]
    /\ UNCHANGED notXferVars

\* one iteration of the loop (1466-1522; 771-834): the C-STORE of the file;
\* on Success the file is counted and, with delete_after, deleted (1505-1513;
\* 824-826), otherwise it is appended to failed_files (1514-1522; 827-834)
xfer_send_c_store(outcome) ==
    /\ xfer.pc = "sending"
    /\ xfer.i <= Len(xfer.file_dataset_pairs)
    /\ LET file_path == xfer.file_dataset_pairs[xfer.i]
       IN IF outcome = "0x0000"
          THEN /\ xfer' = [xfer EXCEPT !.i = @ + 1, !.success_count = @ + 1,
                                       !.stored = @ \cup {file_path}]
               /\ xfer_folder' = IF xfer.delete_after THEN xfer_folder \ {file_path}
                                 ELSE xfer_folder
          ELSE /\ xfer' = [xfer EXCEPT !.i = @ + 1,
                                       !.failed_files = Append(@, file_path)]
               /\ UNCHANGED xfer_folder
    /\ UNCHANGED xfer_failed
    /\ UNCHANGED notXferVars

\* after the loop (1525; 837): release.  When release raises, the handler of
\* the outer try replaces failed_files by the list of all files (1538-1542;
\* 850-854)
xfer_release(outcome) ==
    /\ xfer.pc = "sending"
    /\ xfer.i > Len(xfer.file_dataset_pairs)
    /\ xfer' = [xfer EXCEPT !.pc = "moving",
                            !.failed_files = IF outcome = "raised"
                                             THEN xfer.file_dataset_pairs ELSE @]
    /\ UNCHANGED <<xfer_folder, xfer_failed>>
    /\ UNCHANGED notXferVars

\* the loop over failed_files (1545-1546; 857-858) and the return (1549;
\* 860).  move_to_failed moves a file that exists; for a file that is gone
\* DicomProcessor's returns (590-591) and the watcher's copy2 raises and the
\* handler swallows it (971, 977-978)
xfer_move_to_failed ==
    /\ xfer.pc = "moving"
    /\ xfer_failed' = xfer_failed \cup (Range(xfer.failed_files) \cap xfer_folder)
    /\ xfer_folder' = xfer_folder \ Range(xfer.failed_files)
    /\ xfer' = [xfer EXCEPT !.pc = "done"]
    /\ UNCHANGED notXferVars

NextXfer ==
    \/ \E engine \in XferEngines, delete_after \in BOOLEAN, assoc \in AssocOutcomes :
          \E files \in SUBSET XferFiles \ {{}} :
             \E file_dataset_pairs \in Listings(files) :
                xfer_call(engine, delete_after, file_dataset_pairs, assoc)
    \/ \E outcome \in StoreOutcomes : xfer_send_c_store(outcome)
    \/ \E outcome \in ReleaseOutcomes : xfer_release(outcome)
    \/ xfer_move_to_failed

(***************************************************************************)
(* Part 10: RulesManager's initialisation (rules_manager.py 19-95) on the  *)
(* rules.ini that earlier calls left.  Every section the program writes    *)
(* is named Rule<i> with i in 1..RULE_IDS, so a free name exists exactly   *)
(* when there are fewer than RULE_IDS rules.  The operator adds rules for  *)
(* TESTAE and deletes the rule of the import folder.                       *)
(***************************************************************************)
\* range(1, 100), lines 80 and 145
RULE_IDS == 99

\* the rule the operator adds in the rules dialog
OperatorRule ==
    [enabled |-> TRUE, source_ae |-> TESTAE, plan_label_match |-> << >>,
     target_nodes |-> <<"K", "1", ",", "K", "2">>]

\* lines 63-95: with no rule of source_ae IMPORT_FOLDER, the rule is written
\* under the first free name, when there is one
ensure_import_folder_rule(all_rules) ==
    LET import_folder_rule_exists ==
            \E i \in 1..Len(all_rules) : all_rules[i].source_ae = IMPORT_FOLDER
    IN IF ~import_folder_rule_exists /\ Len(all_rules) < RULE_IDS
       THEN Append(all_rules, ImportFolderRule)
       ELSE all_rules

\* RulesManager(), lines 19-24 and 56-61: rules.ini exists, load_config
\* reads it and calls ensure_import_folder_rule
RulesManager_init ==
    /\ rules' = ensure_import_folder_rule(rules)
    /\ checks' = 0
    /\ first_check' = << >>
    /\ last_check' = << >>
    /\ UNCHANGED <<rules_enabled, nodes>>
    /\ UNCHANGED notRuleVars

\* RulesManager.add_rule, lines 141-161: the rule is written under the
\* first free name; without one the call returns None
RulesManager_add_rule(rule) ==
    /\ rules' = IF Len(rules) < RULE_IDS THEN Append(rules, rule) ELSE rules
    /\ checks' = 0
    /\ first_check' = << >>
    /\ last_check' = << >>
    /\ UNCHANGED <<rules_enabled, nodes>>
    /\ UNCHANGED notRuleVars

NextRulesInit ==
    \/ RulesManager_init
    \/ RulesManager_add_rule(OperatorRule)
    \/ \E i \in {j \in 1..Len(rules) : rules[j].source_ae = IMPORT_FOLDER} : delete_rule(i)

(***************************************************************************)
(* Part 17: two plans of one patient.  PlanX and PlanX2 are delivered by   *)
(* C-STORE or through the import folder, with the dose of PlanX, and are   *)
(* placed by the handlers of Part 4.                                       *)
(***************************************************************************)

PlanObjects == {"PlanX", "PlanX2", "DoseX"}

NextPlans ==
    \/ \E name \in PlanObjects, calling_ae \in CallingAEs :
          handle_store_file(name, calling_ae)
    \/ \E key \in BucketKeys, unreadable \in SUBSET (1..MaxFiles) :
          _group_and_move_received_files(key, unreadable)
    \/ \E name \in PlanObjects : copy_into_import_folder(name)
    \/ process_import_folder

(***************************************************************************)
(* Specifications: one per part, the other parts at rest                   *)
(***************************************************************************)
Init ==
    /\ InitBuf
    /\ InitRules
    /\ InitSend
    /\ InitGroup
    /\ InitScp
    /\ InitNode
    /\ InitFiles
    /\ InitForward
    /\ InitSanitise
    /\ InitReap
    /\ InitReceiver
    /\ InitFailed
    /\ InitImport
    /\ InitTimers
    /\ InitActivity
    /\ InitXfer

SpecBuf == Init /\ [][NextBuf]_vars

SpecRules == Init /\ [][NextRules]_vars

SpecSend == Init /\ [][NextSend]_vars

SpecGroup == Init /\ [][NextGroup]_vars

SpecMainWindow == Init /\ [][NextMainWindow]_vars

SpecScp == Init /\ [][NextScp]_vars

SpecRcv == Init /\ [][NextRcv]_vars

SpecWatch == Init /\ [][NextWatch]_vars

SpecWatchLive == Init /\ [][NextWatch]_vars /\ FairWatch

SpecFiles == Init /\ [][NextFiles]_vars

SpecForward == Init /\ [][NextForward]_vars

SpecRulesInit == Init /\ [][NextRulesInit]_vars

SpecPlans == Init /\ [][NextPlans]_vars

SpecSanitise == Init /\ [][NextSanitise]_vars

SpecReap == Init /\ [][NextReap]_vars

SpecReceiver == Init /\ [][NextReceiver]_vars

SpecReceiverLive == Init /\ [][NextReceiver]_vars /\ FairReceiver

SpecFailed == Init /\ [][NextFailed]_vars

SpecImport == Init /\ [][NextImport]_vars

SpecTimers == Init /\ [][NextTimers]_vars

SpecActivity == Init /\ [][NextActivity]_vars

SpecXfer == Init /\ [][NextXfer]_vars

(***************************************************************************)
(* Claims about the receive buffer                                         *)
(***************************************************************************)
ArrivalsOf(key) == SelectSeq(arrivals, LAMBDA a : a.key = key)

FlushesOf(key) == SelectSeq(flushes, LAMBDA f : f.key = key)

AllFlushThreadsDone ==
    /\ arrivals # << >>
    /\ \A i \in 1..Len(flush_threads) : flush_threads[i].pc = "done"

\* every gap between consecutive arrivals of the bucket is smaller than d
GapsBelow(key, d) ==
    LET A == ArrivalsOf(key)
    IN \A i \in 1..Len(A) - 1 : A[i + 1].at - A[i].at < d

\* once every flush thread has run: exactly one flush, not earlier than d
\* after the last arrival
OneFlushAfter(key, d) ==
    LET A == ArrivalsOf(key)
        F == FlushesOf(key)
    IN /\ Len(F) = 1
       /\ F[1].at >= A[Len(A)].at + d

\* C1 as stated: arrivals of one bucket whose gaps are all smaller than
\* BUFFER_QUIESCE are flushed exactly once, at a time >= tn + BUFFER_QUIESCE.
C1_DebounceAsStated ==
    \A key \in BufferKeys :
        (AllFlushThreadsDone /\ ArrivalsOf(key) # << >> /\ GapsBelow(key, BUFFER_QUIESCE))
            => OneFlushAfter(key, BUFFER_QUIESCE)

\* C1 amended: arrivals of one bucket whose gaps are all smaller than
\* BUFFER_QUIESCE - 0.1 s are flushed exactly once, at a time
\* >= tn + BUFFER_QUIESCE - 0.1 s.
C1_Debounce ==
    \A key \in BufferKeys :
        (AllFlushThreadsDone /\ ArrivalsOf(key) # << >>
            /\ GapsBelow(key, BUFFER_QUIESCE - FLUSH_EPSILON))
            => OneFlushAfter(key, BUFFER_QUIESCE - FLUSH_EPSILON)

\* three arrivals of one bucket at different times, close enough together,
\* all flush threads finished, flushed together in one flush
C1_Witness ==
    \E key \in BufferKeys :
        LET A == ArrivalsOf(key)
        IN /\ AllFlushThreadsDone
           /\ Len(A) = 3
           /\ A[1].at < A[2].at /\ A[2].at < A[3].at
           /\ GapsBelow(key, BUFFER_QUIESCE - FLUSH_EPSILON)
           /\ Len(FlushesOf(key)) = 1
           /\ Len(FlushesOf(key)[1].files) = 3

(***************************************************************************)
(* Claims about the rule engine                                            *)
(***************************************************************************)

\* the node a target name resolves to, as a set with at most one element
ResolvedNode(node_name) ==
    {nodes[i] : i \in {k \in 1..Len(nodes) :
                          /\ nodes[k].name = node_name
                          /\ \A j \in 1..k - 1 : nodes[j].name # node_name}}

\* the rules a plan from source_ae with label plan_name matches
MatchingRules(source_ae, plan_name) ==
    {r \in Range(rules) :
        /\ r.enabled
        /\ r.source_ae = "" \/ r.source_ae = source_ae
        /\ r.plan_label_match = << >> \/ str_in(r.plan_label_match, plan_name)}

\* the resolvable, enabled target nodes of the matching rules
ExpectedTargets(source_ae, plan_name) ==
    IF ~rules_enabled THEN {}
    ELSE UNION { UNION { {<<strip(raw), n>> : n \in {m \in ResolvedNode(strip(raw)) : m.enabled}} :
                          raw \in {x \in Range(split(r.target_nodes, ",")) : strip(x) # << >>} } :
                 r \in MatchingRules(source_ae, plan_name) }

\* C9: the result of check_forwarding_rules is empty when rules are globally
\* disabled, and otherwise holds exactly the resolvable, enabled target nodes
\* of the enabled rules whose source_ae is empty or equal to the caller's and
\* whose plan_label_match is empty or a substring of the plan label.
C9_RuleEvaluation ==
    last_check # << >> =>
        Range(last_check[1].result) =
            ExpectedTargets(last_check[1].source_ae, last_check[1].plan_name)

\* a call that returned a target while the snapshot also holds a disabled
\* rule, and a rule naming an unknown node
C9_Witness ==
    /\ last_check # << >>
    /\ last_check[1].result # << >>
    /\ \E r \in Range(rules) : ~r.enabled
    /\ \E r \in Range(rules) :
          r.enabled /\ r.source_ae = TESTAE /\ r.plan_label_match = ADP
              /\ r.target_nodes = <<" ", "K", "1", " ", ",", ",", "G">>
    /\ last_check[1].source_ae = TESTAE

Rank(name) ==
    IF ~FileInfo[name].readable THEN 4
    ELSE IF FileInfo[name].modality = "CT" THEN 0
    ELSE IF FileInfo[name].modality = "RTSTRUCT" THEN 1
    ELSE IF FileInfo[name].modality = "RTPLAN" THEN 2
    ELSE IF FileInfo[name].modality = "RTDOSE" THEN 3
    ELSE 4

\* the file was stored by the peer with status 0x0000 in this send
Stored(name) ==
    \E k \in 1..Len(cstore_log) :
        cstore_log[k].file = name /\ cstore_log[k].outcome = "0x0000"

\* C5: in the sequence of C-STORE attempts of one folder send, by either
\* engine, an earlier file never has a higher modality rank than a later one.
C5_ModalityOrdering ==
    \A i, j \in 1..Len(cstore_log) :
        i < j => Rank(cstore_log[i].file) <= Rank(cstore_log[j].file)

\* a finished send of three files of three ranks that the folder listed in
\* another order than they were sent in
C5_Witness ==
    /\ send.pc = "done"
    /\ Len(cstore_log) = 3
    /\ Rank(cstore_log[1].file) < Rank(cstore_log[2].file)
    /\ Rank(cstore_log[2].file) < Rank(cstore_log[3].file)
    /\ Rank(send.listing[1]) > Rank(send.listing[3])

\* C6 as stated: when a folder send has finished, every file of the batch
\* that was not stored with status 0x0000 lies in failed/.
C6_FailureQuarantine ==
    send.pc = "done" =>
        \A name \in Range(send.batch) : ~Stored(name) => name \in failed_folder

\* C7 as stated: a finished send has deleted files only if delete_after was
\* set and every file of the batch was stored with status 0x0000.
C7_DeletionAllOrNothing ==
    (send.pc = "done" /\ removed # {}) =>
        (send.delete_after /\ \A name \in Range(send.batch) : Stored(name))

\* C8: one folder send opens one association; whatever the outcome of a
\* file, the files after it are attempted, each once, in batch order, on
\* that association, and only then is the association released.
C8_FailureDoesNotAbort ==
    /\ assoc_count <= 1
    /\ send.pc # "idle" =>
          /\ Len(cstore_log) <= Len(send.batch)
          /\ \A k \in 1..Len(cstore_log) :
                cstore_log[k].file = send.batch[k] /\ cstore_log[k].assoc = 1
          /\ released_at # -1 => released_at = Len(send.batch)
          /\ (send.pc = "done" /\ send.established) =>
                (Len(cstore_log) = Len(send.batch) /\ released_at = Len(send.batch))

\* a finished send of three files whose first file got a failure status and
\* whose second file raised
C8_Witness ==
    /\ send.pc = "done"
    /\ send.established
    /\ Len(cstore_log) = 3
    /\ cstore_log[1].outcome = "0xA700"
    /\ cstore_log[2].outcome = "raised"
    /\ cstore_log[3].outcome = "0x0000"
    /\ released_at = 3

(***************************************************************************)
(* Claims about the plan grouper                                           *)
(***************************************************************************)
\* the file name starts with the prefix
HasPrefix(filename, prefix) ==
    /\ Len(filename) >= Len(prefix)
    /\ SubSeq(filename, 1, Len(prefix)) = prefix

\* the files of the folder of `path` whose name starts with the prefix
FilesBeside(path, prefix) ==
    {q \in DOMAIN watch_folder :
        q[1] = path[1] /\ q[2] = path[2] /\ HasPrefix(q[3], prefix)}

\* C2: cross-patient isolation of doses.  In every plan folder under the
\* receive root, the dose that lies there as RTDOSE_<label>.dcm has the
\* PatientID of the RTPLAN that lies in the same folder, after every flush
\* and every import.
C2_DoseIsolation ==
    \A p \in DOMAIN watch_folder :
        HasPrefix(p[3], RTPLAN \o <<"_">>) =>
            \A q \in FilesBeside(p, RTDOSE \o <<"_">>) :
                Datasets[watch_folder[q].obj].PatientID
                    = Datasets[watch_folder[p].obj].PatientID

\* C3: no data loss on ingest.  Every object of a flushed bucket exists
\* under the receive root (in a plan folder or an orphan folder) or in
\* failed/.
C3_NoDataLoss ==
    \A name \in ingested :
        \/ \E p \in DOMAIN watch_folder : watch_folder[p].obj = name
        \/ name \in quarantine

\* C4: the frame of reference join is patient-scoped.  Whenever the grouper
\* (network flush or import) writes a CT or an RTSTRUCT into the folder of a
\* plan, the file has the FrameOfReferenceUID of that plan and the PatientID
\* of that plan.
C4_FrameJoinPatientScoped ==
    \A g \in grouped :
        (g.plan # "" /\ Datasets[g.obj].Modality \in {CT, RTSTRUCT}) =>
            /\ Datasets[g.obj].FrameOfReferenceUID = Datasets[g.plan].FrameOfReferenceUID
            /\ Datasets[g.obj].PatientID = Datasets[g.plan].PatientID

\* an import has written a CT into a plan's folder while the import folder
\* also held a CT or RTSTRUCT of another patient with the plan's frame of
\* reference
C4_Witness ==
    \E g \in grouped :
        /\ g.via = "import"
        /\ Datasets[g.obj].Modality = CT
        /\ \E i \in 1..Len(import_folder) :
              LET other == Datasets[import_folder[i]]
              IN /\ other.Modality \in {CT, RTSTRUCT}
                 /\ other.FrameOfReferenceUID = Datasets[g.plan].FrameOfReferenceUID
                 /\ other.PatientID # Datasets[g.plan].PatientID

(***************************************************************************)
(* Claims about the Store SCPs                                             *)
(***************************************************************************)

\* C11 as stated: every C-ECHO the running receiver of DICOMnode.py answers
\* gets status 0x0000 when the calling AE title is in trusted_ae_titles and
\* 0xC001 when it is not.
C11_UntrustedEchoRejected ==
    \A i \in 1..Len(echo_log) :
        echo_log[i].status =
            IF echo_log[i].ae \in TRUSTED_AE_TITLES THEN "0x0000" ELSE "0xC001"

\* C12 as stated: a store handler returns 0x0000 only if the object was
\* written (and, where there is a receive buffer, recorded in it), it returns
\* 0xC001 whenever an internal error prevented that, and on a 0xC001 return
\* the bucket holds no path for the object.
C12_StoreStatusReflectsBuffering ==
    \A r \in Range(replies) \cup Range(node_replies) :
        /\ r.status = "0x0000" => (r.written /\ (r.scp = "processor" => r.recorded))
        /\ r.error # "" => r.status = "0xC001"
        /\ r.status = "0xC001" => ~r.in_bucket

\* the paths that are in a bucket of some receive buffer
StagedPaths ==
    UNION {UNION {Range(heap.buffer[b][key]) : key \in DOMAIN heap.buffer[b]} :
             b \in 1..Len(heap.buffer)}

\* the paths that went through _group_and_move_received_files
HandedPaths == UNION {Range(handed[i]) : i \in 1..Len(handed)}

\* the Lock objects the handler threads and the flush threads work with
LocksInUse ==
    {store_threads[t].bound.lock : t \in 1..Len(store_threads)}
        \cup {flushers[f].bound.lock : f \in 1..Len(flushers)}

\* every thread has finished and every handler has started its flush thread
AllThreadsDone ==
    /\ store_threads # << >>
    /\ \A t \in 1..Len(store_threads) : store_threads[t].pc = "done"
    /\ \A f \in 1..Len(flushers) : flushers[f].pc = "done"
    /\ \A i \in 1..Len(replies) : replies[i].status = "0x0000"

\* C13 as stated: the handler threads and the flush threads all work under
\* one and the same mutex, no two of them are inside the critical section of
\* the receive buffer at once, and no appended path is lost (once every
\* thread has finished, every appended path was passed on by a flush).
C13_BufferMutualExclusion ==
    /\ Cardinality(LocksInUse \ {0}) <= 1
    /\ Cardinality(HandlersInside) + Cardinality(FlushersInside) <= 1
    /\ AllThreadsDone => Range(appended) \subseteq HandedPaths

\* C17 as stated: once the receiver is stopped, no flush thread is pending,
\* no path is left in a bucket and no staged file is left in the temp
\* directory.
C17_ShutdownDrainsBuffer ==
    server # "running" =>
        /\ \A f \in 1..Len(flushers) : flushers[f].pc = "done"
        /\ StagedPaths = {}
        /\ Range(appended) \cap temp_dir = {}

(***************************************************************************)
(* Claims about the folder watcher of DICOMnode.py                         *)
(***************************************************************************)

\* the threads that are inside process_folder
InProcessFolder == {w \in workers : w.pc \in {"list", "send"}}

\* C14: at any time at most one thread is inside process_folder, whatever
\* the order in which the folder timers, the retry timers, the rescan and
\* the process_all_folders timer fire.
C14_FolderWatcherSerialised == Cardinality(InProcessFolder) <= 1

\* one folder is being sent while the timer of process_specific_folder for
\* another folder that holds files is started, and the timer of the next
\* process_all_folders round as well
C14_Witness ==
    \E w \in workers :
        /\ w.pc = "send"
        /\ process_all_timer
        /\ \E f \in Folders \ {w.folder} : f \in process_timers /\ spool[f] > 0

\* no timer and no thread of the watcher is about the folder
Unwatched(f) ==
    /\ f \notin folder_timers
    /\ f \notin process_timers
    /\ \A w \in workers : w.folder # f

C16_BusyRequeue ==
    [][\A f \in Folders :
          (is_processing /\ f \in folder_timers /\ f \notin folder_timers')
              => (f \in process_timers')]_vars


(***************************************************************************)
(* Claims about what is in the files                                       *)
(***************************************************************************)

\* C18: every file written for a received RTDOSE, at the staging and at the
\* placement, has exactly the bytes that were received, with or without the
\* UIDs of the dose and whichever branch of the placement wrote it.
C18_DoseVerbatim ==
    \A w \in persisted :
        (w.received.elements.Modality = "RTDOSE" /\ w.step \in {"staging", "placement"})
            => w.file = w.received

\* a received dose without SOPInstanceUID was staged and then placed by a
\* fallback branch
C18_Witness ==
    \E w \in persisted :
        /\ w.step = "placement"
        /\ w.fallback
        /\ w.received.elements.Modality = "RTDOSE"
        /\ w.received.elements.SOPInstanceUID = ""
        /\ Written("staging", w.received, w.file, FALSE) \in persisted

\* the file has a SOPInstanceUID, the same MediaStorageSOPInstanceUID in its
\* file meta group, and a TransferSyntaxUID
UIDComplete(file) ==
    /\ file.elements.SOPInstanceUID # ""
    /\ file.file_meta.MediaStorageSOPInstanceUID = file.elements.SOPInstanceUID
    /\ file.file_meta.TransferSyntaxUID # ""

\* C19 as stated: every file below the receive root that is not an RTDOSE,
\* placed by the flush (fallback branches included) or by the import, has
\* its UIDs complete.
C19_UIDCompleteness ==
    \A placed \in receive_root :
        placed.file.elements.Modality # "RTDOSE" => UIDComplete(placed.file)

(***************************************************************************)
(* Claims about rule-driven forwarding                                     *)
(***************************************************************************)

\* C20: a send of rule-driven forwarding runs with delete_after = False,
\* and from the start of the forwarding to its end, whatever the sends
\* return, the plan folder holds exactly the files it held before.
C20_ForwardingKeepsFolder ==
    forwarding.pc # "idle" =>
        /\ send.pc # "idle" => ~send.delete_after
        /\ plan_folder = forwarding.before
        /\ removed = {}

\* the forwarding to two targets has ended, one send failed and one stored
\* every file of the folder
C20_Witness ==
    /\ forwarding.pc = "done"
    /\ Len(forwarding.results) = 2
    /\ \E i, j \in 1..2 : forwarding.results[i] /\ ~forwarding.results[j]
    /\ Cardinality(plan_folder) >= 2

\* C21: when the forwarding of a plan has ended, a send was attempted to
\* every target the rules returned, each with all the files of the plan
\* folder, whatever the sends to the earlier targets returned.
C21_TargetIndependence ==
    forwarding.pc = "done" =>
        /\ Len(forwarding.attempts) = forwarding.target_nodes
        /\ \A i \in 1..Len(forwarding.attempts) :
              forwarding.attempts[i] = forwarding.before

\* the send to the first of two targets failed (no association, or a file
\* that was not stored), and the send to the second stored every file
C21_Witness ==
    /\ forwarding.pc = "done"
    /\ forwarding.results = <<FALSE, TRUE>>
    /\ forwarding.attempts = <<forwarding.before, forwarding.before>>

(***************************************************************************)
(* Claims about orphans, imports and the reserved source IMPORT_FOLDER     *)
(***************************************************************************)

\* lines 251-515 on a file list every header of which can be read, with
\* the receive root as it is on `disk`: the disk and the placements after
\* the loop over plan_files
flush_on(disk, file_list) ==
    LET objs == [i \in 1..Len(file_list) |-> file_list[i].obj]
        parsed == [i \in 1..Len(file_list) |-> i]
    IN flush_plans(objs, parsed, plan_files(objs, parsed),
           [disk |-> disk, gone |-> {}, log |-> {}, raised |-> FALSE])

flush_outcome(file_list) == flush_on(watch_folder, file_list)

\* lines 883-1087 on the readable files of the import folder: Phase 2, and
\* Phase 3 when lines 1017 and 1022 do not raise
import_outcome(objs) ==
    LET parsed == SelectSeq([i \in 1..Len(objs) |-> i],
                            LAMBDA i : Datasets[objs[i]].readable)
        phase2 == import_plans(objs, parsed, plan_files(objs, parsed),
                      [disk |-> watch_folder, log |-> {}])
    IN IF ct_files(objs, parsed) # << >> \/ structure_files(objs, parsed) # << >>
       THEN phase2
       ELSE import_orphans(objs, other_files(objs, parsed), phase2)

\* the object is in the folder of a plan after the run with this log
Attached(log, name) == \E g \in log : g.obj = name /\ g.plan # ""

\* the object is the content of the file at its orphan path
Orphaned(disk, name) ==
    /\ OrphanPath(Datasets[name]) \in DOMAIN disk
    /\ disk[OrphanPath(Datasets[name])].obj = name

\* C22 (network path): for every bucket waiting to be flushed, the flush
\* leaves every object that it attaches to no plan at the orphan path of
\* the object's own patient and study.
C22_FlushOrphans ==
    \A key \in DOMAIN staged :
        LET done == flush_outcome(staged[key])
        IN \A i \in 1..Len(staged[key]) :
              ~Attached(done.log, staged[key][i].obj) =>
                  Orphaned(done.disk, staged[key][i].obj)

\* C22 (import path): the import places every readable file that it
\* attaches to no plan as an orphan, and places no file that it attached
\* to a plan as an orphan as well.
C22_ImportOrphans ==
    LET done == import_outcome(import_folder)
    IN \A i \in 1..Len(import_folder) :
          LET name == import_folder[i]
          IN Datasets[name].readable =>
                (Attached(done.log, name) <=> Placement("", name, "import") \notin done.log)

\* C22: orphan placement.  On the network flush path and on the import
\* path, every grouped file that is attached to no RTPLAN is placed under
\* Unzugeordnet_<study> of its own patient, and a file that was attached to
\* a plan is not placed as an orphan as well.
C22_OrphanPlacement == C22_FlushOrphans /\ C22_ImportOrphans

\* process_import_folder, lines 706-1369, seen from its caller: the call
\* returns its (success, count, message) result at line 815 (no DICOM file)
\* or at lines 1366-1369, unless the membership test on the int `processed`
\* (lines 1017 and 1022) raises, which no handler of the method catches
process_import_folder_result(objs) ==
    LET parsed == SelectSeq([i \in 1..Len(objs) |-> i],
                            LAMBDA i : Datasets[objs[i]].readable)
    IN IF parsed = << >> THEN "returned"
       ELSE IF ct_files(objs, parsed) # << >> \/ structure_files(objs, parsed) # << >>
            THEN "TypeError"
            ELSE "returned"

\* C23: per-object errors are confined.  Whatever the import folder holds
\* (CT and RTSTRUCT files included, an unreadable file included), the
\* import returns its result, and every readable file is placed: in the
\* folder of a plan or as an orphan.
C23_ImportCompletes ==
    LET done == import_outcome(import_folder)
    IN /\ process_import_folder_result(import_folder) = "returned"
       /\ \A i \in 1..Len(import_folder) :
             Datasets[import_folder[i]].readable =>
                \E g \in done.log : g.obj = import_folder[i]

\* the folder of a plan below the receive root
plan_folder_of(plan) == <<RTPLAN_path(plan)[1], RTPLAN_path(plan)[2]>>

\* C24: IMPORT_FOLDER is reserved for imports.  Every send that the rules
\* asked for on an evaluation with source_ae IMPORT_FOLDER is the send of a
\* plan folder that an import wrote a plan into; a folder that holds only
\* what the network flush placed is never sent on such an evaluation.
C24_ImportFolderReserved ==
    \A k \in 1..Len(forwarded) :
        forwarded[k].source_ae = IMPORT_FOLDER =>
            \E g \in grouped :
                /\ g.via = "import"
                /\ g.plan # ""
                /\ plan_folder_of(Datasets[g.plan]) = forwarded[k].folder

(***************************************************************************)
(* Claims about the sanitisers                                             *)
(***************************************************************************)

\* C25: idempotent sanitisation.  For sanitize_path_component and for
\* sanitize_folder_name, sanitising the result of a call gives the result
\* again.
C25_SanitiseIdempotent ==
    \A function \in DOMAIN sanitised : sanitised[function].twice = sanitised[function].once

\* sanitize_path_component was called on a string it changes in all three
\* of its steps (":" replaced, the tab replaced, the space at the end
\* stripped), and sanitize_folder_name on a string of which it replaces
\* two characters
C25_Witness ==
    /\ sanitised.sanitize_path_component.name = <<":", "\t", " ">>
    /\ sanitised.sanitize_path_component.once = <<"-", "_">>
    /\ sanitised.sanitize_folder_name.name = <<":", "/", " ">>
    /\ sanitised.sanitize_folder_name.once = <<"_", "_", " ">>

(***************************************************************************)
(* Claims about receiving the same objects again                           *)
(***************************************************************************)

\* the file lists the same objects make when they are received once more,
\* in any order of arrival
Rereceipts(file_list) ==
    {again \in [1..Len(file_list) -> Range(file_list)] :
        \A i, j \in 1..Len(file_list) : i # j => again[i] # again[j]}

C27_ImportFolderRule ==
    LET after == ensure_import_folder_rule(rules)
        existed == \E i \in 1..Len(rules) : rules[i].source_ae = IMPORT_FOLDER
    IN /\ \E i \in 1..Len(after) : after[i].source_ae = IMPORT_FOLDER
       /\ existed => after = rules
       /\ ~existed =>
             /\ Len(after) = Len(rules) + 1
             /\ SubSeq(after, 1, Len(rules)) = rules
             /\ after[Len(after)].source_ae = IMPORT_FOLDER
             /\ after[Len(after)].target_nodes = << >>
       /\ ensure_import_folder_rule(after) = after

(***************************************************************************)
(* Claims about the reaper of empty folders                                *)
(***************************************************************************)

\* C28: empty-folder reaper safety.  In every step, a directory that is
\* failed/, or that holds a file or a directory, or whose mtime is not more
\* than EMPTY_AGE back, is still there after the step: only an empty
\* directory older than EMPTY_AGE, other than failed/, is ever removed.
C28_ReaperSafety ==
    [][\A d \in SpoolDirs :
          (/\ spool_dirs[d].exists
           /\ \/ d = "failed"
              \/ listdir(d) > 0
              \/ minute - spool_dirs[d].mtime <= EMPTY_AGE)
             => spool_dirs'[d].exists]_vars

\* a reap run has ended in which the folder below the patient folder was
\* removed; the patient folder, empty since then but touched by that
\* removal, and the empty old failed/ are still there
C28_Witness ==
    /\ reap.pc = "idle"
    /\ reaped = {"patient/series"}
    /\ spool_dirs["patient"].exists
    /\ listdir("patient") = 0
    /\ spool_dirs["failed"].exists
    /\ listdir("failed") = 0
    /\ minute - spool_dirs["failed"].mtime > EMPTY_AGE

(***************************************************************************)
(* Claims about the restart of the receiver                                *)
(***************************************************************************)

\* a start of the listener that follows a failure comes after the whole
\* back-off
BackoffKept ==
    (listener.pc \in {"start_server", "listening"} /\ last_start.after_failure)
        => last_start.slept = BACKOFF

Preserved(call) ==
    LET failed == failed_entries[call.mover]
        name == <<call.second, call.file_path[2]>>
    IN  /\ name \in DOMAIN failed
        /\ failed[name].content = call.file_path
        /\ failed[name].error.error_msg = call.error_msg

\* C30: failed items are preserved.  After any sequence of move_to_failed
\* calls on existing files, failed/ holds one entry per call, each with a
\* sibling .error file that contains the call's message, the source path no
\* longer exists, and no earlier entry has been overwritten, also when two
\* files of one basename fail within one second.
C30_FailedPreserved ==
    /\ \A i \in 1..Len(move_calls) :
           /\ Preserved(move_calls[i])
           /\ move_calls[i].file_path \notin source_files[move_calls[i].mover]
    /\ \A mover \in Movers :
           Cardinality(DOMAIN failed_entries[mover])
               = Cardinality({i \in 1..Len(move_calls) :
                                  move_calls[i].mover = mover})

(***************************************************************************)
(* Claims about the clearing of the import folder                          *)
(***************************************************************************)

\* C31: import-folder clearing is configuration-driven.  In every step in
\* which process_import_folder takes files out of the import folder while
\* clear_import_folder_after_import is false, the files it did not import
\* stay in the import folder.
C31_ClearingByConfiguration ==
    [][(/\ Len(import_folder') < Len(import_folder)
        /\ ~clear_import_folder_after_import)
           => import_others' = import_others]_vars

(***************************************************************************)
(* Claims about the timers of the folder watcher                           *)
(***************************************************************************)

\* the timers of a folder that are started, not fired and not cancelled
LiveTimers(folder) ==
    {t \in 1..Len(timers) : timers[t].folder = folder /\ timers[t].state = "waiting"}

\* C32: one timer per folder.  Each watched folder has at most one live
\* inactivity or retry timer, and every live timer is the one recorded in
\* folder_timers for its folder.
C32_OneTimerPerFolder ==
    \A folder \in Folders :
        /\ Cardinality(LiveTimers(folder)) <= 1
        /\ \A t \in LiveTimers(folder) :
               folder \in DOMAIN timer_dict /\ timer_dict[folder] = t

\* C33: no send during activity.  Every send of the .dcm files of a
\* directory comes at least INACTIVITY seconds after the last event for a
\* .dcm file of that directory, also when the enclosing patient folder was
\* armed by the rescan.
C33_NoSendDuringActivity ==
    \A s \in sent_from : s.at - s.event >= INACTIVITY

(***************************************************************************)
(* Claims about the order of the files of a flush                          *)
(***************************************************************************)

\* C34: grouping is independent of arrival order.  For every bucket waiting
\* to be flushed, the flush leaves the same files with the same contents
\* below the receive root for every order of the bucket's file list.
C34_OrderIndependence ==
    \A key \in DOMAIN staged :
        \A reordered \in Rereceipts(staged[key]) :
            flush_on(watch_folder, reordered).disk
                = flush_on(watch_folder, staged[key]).disk

(***************************************************************************)
(* Claims about the folders of plans                                       *)
(***************************************************************************)

\* the plans that a flush or an import has placed
PlacedPlans == {g.obj : g \in {h \in grouped : h.plan = h.obj}}

\* C35: one plan, one folder.  Two placed RTPLAN objects with different
\* SOPInstanceUIDs are in different plan folders, also when they share
\* patient, plan label and the last segment of the StudyInstanceUID.
C35_OnePlanOneFolder ==
    \A a, b \in PlacedPlans :
        Datasets[a].SOPInstanceUID # Datasets[b].SOPInstanceUID
            => plan_folder_of(Datasets[a]) # plan_folder_of(Datasets[b])

(***************************************************************************)
(* Claims about the raw-dose fallback and about sent files                 *)
(***************************************************************************)

\* C36: raw-dose fallback in the folder watcher.  In every send of the
\* watcher, a listed file that cannot be parsed is part of the batch if its
\* name contains "dose"; any other file that cannot be parsed is in failed/
\* and not part of the batch.
C36_RawDoseFallback ==
    (send.pc # "idle" /\ send.engine = "watcher") =>
        \A f \in UnreadableFiles(send.listing) :
            IF FileInfo[f].dose_named
            THEN f \in Range(send.batch)
            ELSE f \notin Range(send.batch) /\ f \in failed_folder

(***************************************************************************)
(* Claims about the flushes of the receive buffer                          *)
(***************************************************************************)

\* the number of flushes that handed the path to the grouper
TimesHanded(path) ==
    LET in(i) == Cardinality({k \in 1..Len(handed[i]) : handed[i][k] = path})
        RECURSIVE sum(_)
        sum(i) == IF i = 0 THEN 0 ELSE in(i) + sum(i - 1)
    IN sum(Len(handed))

\* the paths a flush thread has popped and not yet handed to the grouper
PoppedPaths ==
    UNION {Range(flushers[f].file_list) :
             f \in {g \in 1..Len(flushers) : flushers[g].pc = "group"}}

\* C37: every staged file is flushed exactly once.  While the process
\* lives, no appended path is handed to the grouper twice; an appended path
\* is in a bucket, in the list a flush thread has popped, or handed over;
\* and once every handler and every flush thread has finished, every
\* appended path was handed over.
C37_FlushedExactlyOnce ==
    server # "exited" =>
        /\ \A path \in Range(appended) :
               /\ TimesHanded(path) <= 1
               /\ path \in StagedPaths \cup PoppedPaths \cup HandedPaths
        /\ AllThreadsDone => \A path \in Range(appended) : TimesHanded(path) = 1

\* C38: a successfully sent file is never quarantined.  When a call of
\* send_all_dicom_files has returned, no file whose C-STORE returned 0x0000
\* lies in failed/ or is in failed_files, and the files in failed/ are
\* exactly the files of the call that were not stored with Success.
C38_SentNeverQuarantined ==
    xfer.pc = "done" =>
        /\ \A file_path \in xfer.stored :
               /\ file_path \notin xfer_failed
               /\ file_path \notin Range(xfer.failed_files)
        /\ xfer_failed = Range(xfer.file_dataset_pairs) \ xfer.stored

\* the node names of a list of targets, in the order of the list
TargetNames(target_nodes) == [k \in 1..Len(target_nodes) |-> target_nodes[k][1]]

\* C39: at most one forwarding send per target.  The callers send the plan
\* once for every entry of the list check_forwarding_rules returns, so the
\* list of a call names no node twice, also when several enabled rules name
\* the same node.
C39_OneSendPerTarget ==
    \A call \in Range(last_check) :
        \A i, j \in 1..Len(call.result) :
            i # j => TargetNames(call.result)[i] # TargetNames(call.result)[j]
=============================================================================
